---- MODULE Spec2Model ----
(***************************************************************************)
(* The shared, versioned context store of agent_communication.py          *)
(* (SharedContextDB): a key-value document guarded by one reentrant lock,  *)
(* a list of checksummed version snapshots, a parallel change log, and a   *)
(* registry of subscriber callbacks that update_context invokes            *)
(* synchronously while it still holds the lock.                            *)
(*                                                                         *)
(* Threads execute update_context statement by statement; a callback may   *)
(* return, raise, call update_context again on the same thread (the lock   *)
(* is reentrant) or call subscribe_to_changes.                             *)
(*                                                                         *)
(* Further specifications cover _get_change_diff on its own (SpecDiff),    *)
(* the read operations of the store (SpecRead), the checksum of a          *)
(* ContextVersion (SpecChecksum), the message queue, agent records and     *)
(* handlers of AgentCommunicationHub (SpecHub), and the identity of the    *)
(* objects that the store and the hub hand to their callers (SpecViews).   *)
(***************************************************************************)
EXTENDS Integers, Sequences, FiniteSets, TLC

\* ------------------------------------------------------------------ bounds

\* update_context is started only while the version counter is below this.
MaxVersion == 2

\* subscribe_to_changes is called from outside a notification only while
\* fewer callbacks than this are registered.
MaxSubs == 2

\* The number of single-key updates that build a document whose checksum is
\* compared.
MaxItems == 2

\* register_agent is called at most this many times.
MaxRegs == 2

\* send_message is called at most this many times.
MaxSends == 2

\* A caller changes this many objects it was handed.
MaxMutations == 1

\* ------------------------------------------------------------- input sets

Threads == {"t1", "t2"}

NoThread == "none"

\* The producer name each thread passes as changed_by.
Producer(t) == IF t = "t1" THEN "A" ELSE "B"

EmptyDoc == << >>

\* The updates dicts the threads pass to update_context. "x" and "y" are JSON
\* values; "obj" stands for a value json.dumps cannot serialize (an object()).
UpdateSet ==
    { [k \in {"a"} |-> "x"],
      [k \in {"b"} |-> "y"],
      [k \in {"a", "b"} |-> IF k = "a" THEN "y" ELSE "obj"] }

\* The updates dict the re-entrant callback passes to update_context.
CbUpdates == [k \in {"b"} |-> "x"]

\* Callbacks: what the callable does when it is invoked with (changes, changed_by).
CbOk == [kind |-> "ok", as |-> ""]

CbRaise == [kind |-> "raise", as |-> ""]

\* Calls update_context(CbUpdates, changed_by = name).
CbUpdate(name) == [kind |-> "update", as |-> name]

\* Calls subscribe_to_changes(name, CbOk).
CbSubscribe(name) == [kind |-> "subscribe", as |-> name]

\* The (subscriber, callback) pairs passed to subscribe_to_changes from
\* outside a notification.
RegChoices ==
    { <<"A", CbOk>>, <<"B", CbOk>>, <<"B", CbRaise>>,
      <<"C", CbUpdate("C")>>, <<"C", CbSubscribe("D")>> }

\* ------------------------------------------------------------------ state

VARIABLES
    context_data,     \* SharedContextDB._context_data
    current_version,  \* SharedContextDB._current_version
    versions,         \* SharedContextDB._versions
    change_log,       \* SharedContextDB._change_log
    subscribers,      \* SharedContextDB._subscribers, in insertion order
    lockOwner,        \* SharedContextDB._lock: the owning thread
    lockCount,        \* SharedContextDB._lock: its recursion level
    stack,            \* per thread, the update_context activations it is in
    done,             \* history: every finished update_context call
    dOld, dNew, dOut, dDone, \* one evaluation of _get_change_diff
    rd,               \* the last read of the store: the call and what it returned
    ck,               \* two documents built key by key and their versions
    agent_status,     \* AgentCommunicationHub._agent_status
    message_handlers, \* AgentCommunicationHub._message_handlers
    message_queue,    \* AgentCommunicationHub._message_queue
    hubNow,           \* the clock datetime.now() reads
    hubCalls,         \* history: the register_agent and send_message calls made
    hubLast,          \* history: the call just made, if register, send or poll
    returned,         \* history: every message a get_messages_for_agent returned
    invoked,          \* history: every handler invocation
    rejected,         \* history: the messages send_message returned False for
    active_conversations, \* AgentCommunicationHub._active_conversations
    convCalls,        \* history: how many calls of each conversation operation
    convLast,         \* history: the call just made, if a conversation operation
    vd,               \* one evaluation of validate_story_consistency
    vc,               \* one evaluation of validate_changes
    rc,               \* one evaluation of resolve_conflicts
    breaker,          \* a CircuitBreaker, the clock and its last call
    producers,        \* per producer, the proposal it validates and commits
    hubLock,          \* AgentCommunicationHub._lock: owner and recursion level
    hthreads,         \* per thread, the hub call it is in
    heap,             \* the objects of the store and the hub, by identity
    held,             \* the object a caller got from its last call
    viewLast          \* history: the caller's last call or mutation

storeVars == <<context_data, current_version, versions, change_log>>

diffVars == <<dOld, dNew, dOut, dDone>>

\* What the operations of update_context and subscribe_to_changes never touch.
hubVars == <<agent_status, message_handlers, message_queue, hubNow, hubCalls,
             hubLast, returned, invoked, rejected>>

viewVars == <<heap, held, viewLast>>

convVars == <<active_conversations, convCalls, convLast>>

moreVars == <<vc, rc, breaker, producers, hubLock, hthreads>>

sideVars == <<rd, ck, hubVars, viewVars, convVars, vd, moreVars>>

vars == <<context_data, current_version, versions, change_log, subscribers,
          lockOwner, lockCount, stack, done, dOld, dNew, dOut, dDone, sideVars>>

\* ------------------------------------------------------- pure operations

\* An assignment of the updates in place of the document.
MergeReplacing(doc, updates) == updates

\* dict.update: last writer wins per key, shallow.
Merge(doc, updates) ==
    [k \in (DOMAIN doc) \cup (DOMAIN updates) |->
        IF k \in DOMAIN updates THEN updates[k] ELSE doc[k]]

\* json.dumps raises TypeError on a value it cannot serialize.
Serializable(doc) == \A k \in DOMAIN doc : doc[k] # "obj"

\* The order json.dumps(sort_keys=True) puts the keys in.
KeyRank(k) == CASE k = "a" -> 1 [] k = "b" -> 2 [] k = "c" -> 3 [] OTHER -> 4

RECURSIVE SortedItems(_, _)
\* json.dumps(sort_keys=True): the items of doc in ascending key order.
SortedItems(doc, ks) ==
    IF ks = {} THEN << >>
    ELSE LET m == CHOOSE k \in ks : \A o \in ks : KeyRank(k) <= KeyRank(o)
         IN  <<  <<m, doc[m]>>  >> \o SortedItems(doc, ks \ {m})

\* ContextVersion.__post_init__: the digest of the sorted serialization.
\* The digest is kept symbolic: the serialized text itself.
Checksum(doc) == SortedItems(doc, DOMAIN doc)

EmptyDiff == [added |-> << >>, modified |-> << >>, removed |-> << >>]

\* d[key] = value on a dict.
Put(d, key, value) ==
    [k \in (DOMAIN d) \cup {key} |-> IF k = key THEN value ELSE d[k]]

RECURSIVE ScanNew(_, _, _, _)
\* for key, value in new_data.items(): the keys in ks are still to visit.
ScanNew(old_data, new_data, ks, changes) ==
    IF ks = {} THEN changes
    ELSE LET key == CHOOSE k \in ks : TRUE
             value == new_data[key]
             step ==
                 IF key \notin DOMAIN old_data
                 THEN [changes EXCEPT !.added = Put(@, key, value)]
                 ELSE IF old_data[key] # value
                 THEN [changes EXCEPT !.modified =
                          Put(@, key, [old |-> old_data[key], new |-> value])]
                 ELSE changes
         IN  ScanNew(old_data, new_data, ks \ {key}, step)

RECURSIVE ScanOld(_, _, _, _)
\* for key in old_data: the keys in ks are still to visit.
ScanOld(old_data, new_data, ks, changes) ==
    IF ks = {} THEN changes
    ELSE LET key == CHOOSE k \in ks : TRUE
             step ==
                 IF key \notin DOMAIN new_data
                 THEN [changes EXCEPT !.removed = Put(@, key, old_data[key])]
                 ELSE changes
         IN  ScanOld(old_data, new_data, ks \ {key}, step)

\* A diff that forgets the keys whose value changed.
ChangeDiffWithoutModified(old_data, new_data) ==
    [ScanOld(old_data, new_data, DOMAIN old_data,
             ScanNew(old_data, new_data, DOMAIN new_data, EmptyDiff))
        EXCEPT !.modified = << >>]

\* A diff that reports every key of both documents as modified, changed or not.
ChangeDiffModifiedAlways(old_data, new_data) ==
    LET d == ScanOld(old_data, new_data, DOMAIN old_data,
                     ScanNew(old_data, new_data, DOMAIN new_data, EmptyDiff))
    IN  [d EXCEPT !.modified =
            [k \in (DOMAIN old_data) \cap (DOMAIN new_data) |->
                [old |-> old_data[k], new |-> new_data[k]]]]

\* _get_change_diff(old_data, new_data)
ChangeDiff(old_data, new_data) ==
    ScanOld(old_data, new_data, DOMAIN old_data,
            ScanNew(old_data, new_data, DOMAIN new_data, EmptyDiff))

\* ContextVersion(version, timestamp, context_data.copy(), changed_by, summary).
NewVersion(n, doc, by) ==
    [version |-> n, context_data |-> doc, changed_by |-> by,
     checksum |-> Checksum(doc)]

\* An append that stores the live document instead of a copy: every stored
\* version shows the newest document.
AppendVersionAliased(vs, v) ==
    Append([k \in DOMAIN vs |-> [vs[k] EXCEPT !.context_data = v.context_data]], v)

\* self._versions.append(version)
AppendVersion(vs, v) == Append(vs, v)

\* A counter that skips a number.
NextVersionNumberSkipping(n) == n + 2

\* self._current_version += 1
NextVersionNumber(n) == n + 1

\* The entry update_context appends to the change log.
NewLogEntry(n, by, old_data, new_data) ==
    [version |-> n, changed_by |-> by, changes |-> ChangeDiff(old_data, new_data)]

\* self._versions[-limit:] if self._versions else []
GetVersionHistory(vs, limit) ==
    IF vs = << >> THEN << >>
    ELSE LET n == Len(vs)
             \* Python resolves the slice start -limit: 0 stays 0, a negative
             \* start counts from the end and is clamped at 0.
             start == IF limit = 0 THEN 0
                      ELSE IF limit > 0 THEN (IF n - limit < 0 THEN 0 ELSE n - limit)
                      ELSE (IF -limit > n THEN n ELSE -limit)
         IN  SubSeq(vs, start + 1, n)

\* A key list passed to get_context; no list at all is the default None.
NoKeys == [given |-> FALSE, keys |-> << >>]

KeyList(ks) == [given |-> TRUE, keys |-> ks]

\* The keys named by a list.
Named(arg) == {arg.keys[i] : i \in DOMAIN arg.keys}

\* if keys: return {k: self._context_data.get(k) for k in keys
\*                  if k in self._context_data}
\* return self._context_data.copy()
\* An empty list is false in Python, as None is.
GetContext(doc, arg) ==
    IF arg.given /\ arg.keys # << >>
    THEN [k \in Named(arg) \cap DOMAIN doc |-> doc[k]]
    ELSE doc

RECURSIVE ScanVersions(_, _, _)
\* for version in self._versions: if version.version == version_number:
\*     return version
\* return None                      (None is << >>, a version v is <<v>>)
ScanVersions(vs, i, n) ==
    IF i > Len(vs) THEN << >>
    ELSE IF vs[i].version = n THEN <<vs[i]>>
    ELSE ScanVersions(vs, i + 1, n)

\* A lookup that indexes the list with the version number.
GetVersionByIndex(vs, n) == IF n + 1 \in DOMAIN vs THEN <<vs[n + 1]>> ELSE << >>

GetVersion(vs, n) == ScanVersions(vs, 1, n)

\* -------------------------------------------------------- subscriber registry

\* The position of name in the registry, 0 when it has no entry.
SubIndex(subs, name) ==
    IF \E i \in DOMAIN subs : subs[i].name = name
    THEN CHOOSE i \in DOMAIN subs : subs[i].name = name
    ELSE 0

\* self._subscribers[subscriber].append(callback) on a defaultdict(list):
\* a new name gets a new entry at the end of the dict.
Subscribed(subs, name, cb) ==
    IF SubIndex(subs, name) = 0
    THEN Append(subs, [name |-> name, callbacks |-> <<cb>>])
    ELSE [subs EXCEPT ![SubIndex(subs, name)].callbacks = Append(@, cb)]

RECURSIVE CountCallbacks(_)
\* The number of registered callbacks, over all subscribers.
CountCallbacks(subs) ==
    IF subs = << >> THEN 0
    ELSE Len(subs[1].callbacks) + CountCallbacks(Tail(subs))

\* A notification that does not leave out the producer of the change.
ShouldNotifyEveryone(subscriber, changed_by) == TRUE

\* if subscriber != changed_by
ShouldNotify(subscriber, changed_by) == subscriber # changed_by

\* ------------------------------------------------------------------- lock

\* threading.RLock.acquire does not block iff the lock is free or already
\* owned by the calling thread.
CanAcquire(t) == lockOwner = NoThread \/ lockOwner = t

Acquire(t) ==
    /\ lockOwner' = t
    /\ lockCount' = lockCount + 1

Release(t) ==
    /\ lockCount' = lockCount - 1
    /\ lockOwner' = IF lockCount = 1 THEN NoThread ELSE lockOwner

\* ------------------------------------------------------------ activations

Top(t) == stack[t][Len(stack[t])]

At(t, pc) == stack[t] # << >> /\ Top(t).pc = pc

SetTop(t, f) == [stack EXCEPT ![t] = [@ EXCEPT ![Len(@)] = f]]

Popped(t) == [stack EXCEPT ![t] = SubSeq(@, 1, Len(@) - 1)]

\* An activation of update_context(updates, changed_by) entering its
\* with-block. subs0 and pre are history: the registry and the store as
\* the call found them.
NewFrame(updates, by) ==
    [pc |-> "copy", updates |-> updates, changed_by |-> by,
     old_data |-> EmptyDoc, mine |-> 0, i |-> 0, j |-> 0, used |-> 0,
     inv |-> << >>, subs0 |-> subscribers,
     pre |-> [doc |-> context_data, ver |-> current_version,
              nver |-> Len(versions), nlog |-> Len(change_log)]]

\* The history record of a finished call: raised is "no", "TypeError" (the
\* checksum serialization) or "RuntimeError" (the registry changed size while
\* it was iterated); ret is the value returned, 0 when the call raised.
Finished(t, f, raised, ret) ==
    [thread |-> t, depth |-> Len(stack[t]), updates |-> f.updates,
     changed_by |-> f.changed_by, raised |-> raised, ret |-> ret,
     mine |-> f.mine, inv |-> f.inv, subs0 |-> f.subs0, pre |-> f.pre,
     post |-> [doc |-> context_data, ver |-> current_version,
               nver |-> Len(versions), nlog |-> Len(change_log)]]

\* --------------------------------------------------------------- initial state

\* SharedContextDB.__init__, with no thread inside the store.
InitStore ==
    /\ context_data = EmptyDoc
    /\ current_version = 0
    /\ versions = << >>
    /\ change_log = << >>
    /\ subscribers = << >>
    /\ lockOwner = NoThread
    /\ lockCount = 0
    /\ stack = [t \in Threads |-> << >>]
    /\ done = << >>

\* Nothing has been read yet.
NoRead ==
    [op |-> "none", keys |-> [given |-> FALSE, keys |-> << >>], n |-> 0,
     doc |-> << >>, list |-> << >>, tick |-> 0]

InitNoRead == rd = NoRead

\* No document has been built for a checksum comparison.
NoChecksum ==
    [a |-> << >>, b |-> << >>, byA |-> "A", byB |-> "A", atA |-> 1, atB |-> 1,
     va |-> << >>, vb |-> << >>]

InitNoChecksum == ck = NoChecksum

\* class Priority(Enum)
Priority == [LOW |-> 1, MEDIUM |-> 2, HIGH |-> 3, CRITICAL |-> 4]

\* The content of a message that carries none of the hub's own.
NoContent == [conversation_id |-> "", collaboration_id |-> ""]

\* The message of a hub call that has none.
NoMessage ==
    [id |-> 0, sender |-> "", recipient |-> "", message_type |-> "",
     content |-> NoContent, priority |-> 0, requires_response |-> FALSE,
     response_deadline |-> 0, processed |-> FALSE]

\* No call of the hub has been made.
NoHubCall ==
    [op |-> "none", agent |-> "", handler |-> "", message |-> NoMessage,
     types |-> [given |-> FALSE, types |-> << >>], ok |-> FALSE, ids |-> << >>]

\* AgentCommunicationHub.__init__
InitHub ==
    /\ agent_status = << >>
    /\ message_handlers = << >>
    /\ message_queue = << >>
    /\ hubNow = 0
    /\ hubCalls = [register |-> 0, send |-> 0, names |-> {}]
    /\ hubLast = NoHubCall
    /\ returned = << >>
    /\ invoked = << >>
    /\ rejected = {}

\* The objects a new store and a new hub hold: the document, the version
\* list, the agent records and the message queue, all empty.
NewHeap == [c \in {"ctx", "versions", "status", "queue"} |-> << >>]

NoViewCall ==
    [op |-> "none", from |-> "", cell |-> "", field |-> "", mutations |-> 0]

InitViews ==
    /\ heap = NewHeap
    /\ held = ""
    /\ viewLast = NoViewCall

\* No conversation operation has been called.
NoConvCall ==
    [op |-> "none", id |-> "", agent |-> "", names |-> << >>, ok |-> FALSE,
     out |-> << >>,
     stats |-> [total_agents |-> 0, total_messages |-> 0,
                active_conversations |-> 0]]

\* self._active_conversations = {}
InitConv ==
    /\ active_conversations = << >>
    /\ convCalls = [start |-> 0, add |-> 0, collaborate |-> 0]
    /\ convLast = NoConvCall

\* No proposal has been validated.
NoValidation ==
    [current |-> << >>, proposed |-> << >>, is_valid |-> TRUE,
     conflicts |-> << >>, warnings |-> << >>, done |-> FALSE]

InitNoValidation == vd = NoValidation

\* No set of changes has been checked against the rules.
NoRuleCheck ==
    [current |-> << >>, proposed |-> << >>, is_valid |-> TRUE,
     violations |-> << >>, done |-> FALSE]

\* No list of conflicts has been resolved.
NoResolution ==
    [conflicts |-> << >>, resolvers |-> << >>, resolved |-> << >>,
     unresolved |-> << >>, raised |-> FALSE, done |-> FALSE]

\* CircuitBreaker.__init__ has not run.
NoBreaker ==
    [failure_threshold |-> 5, recovery_timeout |-> 60, state |-> "CLOSED",
     failure_count |-> 0, last_failure_time |-> [set |-> FALSE, at |-> 0],
     now |-> 0, calls |-> 0, outcome |-> "none", ran |-> FALSE,
     trial |-> FALSE, failures_in_a_row |-> 0]

\* threading.RLock()
NewLock == [owner |-> NoThread, count |-> 0]

InitMore ==
    /\ vc = NoRuleCheck
    /\ rc = NoResolution
    /\ breaker = NoBreaker
    /\ producers = << >>
    /\ hubLock = NewLock
    /\ hthreads = << >>

InitSide ==
    /\ InitNoRead
    /\ InitNoChecksum
    /\ InitHub
    /\ InitViews
    /\ InitConv
    /\ InitNoValidation
    /\ InitMore

InitNoDiff ==
    /\ dOld = EmptyDoc
    /\ dNew = EmptyDoc
    /\ dOut = EmptyDiff
    /\ dDone = FALSE

Init ==
    /\ InitStore
    /\ InitNoDiff
    /\ InitSide

\* ------------------------------------------------------ subscribe_to_changes

\* subscribe_to_changes(name, cb) called by thread t from outside any
\* notification: the whole body runs under the lock. A callback that calls
\* update_context is registered once at most and writes under the name it is
\* registered under, so that its own update does not notify it again.
Subscribe(t, name, cb) ==
    /\ stack[t] = << >>
    /\ CanAcquire(t)
    /\ CountCallbacks(subscribers) < MaxSubs
    /\ cb.kind = "update" =>
          \A i \in DOMAIN subscribers : \A j \in DOMAIN subscribers[i].callbacks :
             subscribers[i].callbacks[j].kind # "update"
    /\ subscribers' = Subscribed(subscribers, name, cb)
    /\ UNCHANGED <<storeVars, lockOwner, lockCount, stack, done, diffVars, sideVars>>

\* ------------------------------------------------------------ update_context

\* Thread t calls update_context(u, Producer(t)) and enters the with-block.
Call(t, u) ==
    /\ stack[t] = << >>
    /\ current_version < MaxVersion
    /\ CanAcquire(t)
    /\ Acquire(t)
    /\ stack' = [stack EXCEPT ![t] = <<NewFrame(u, Producer(t))>>]
    /\ UNCHANGED <<storeVars, subscribers, done, diffVars, sideVars>>

\* old_data = self._context_data.copy()
CopyOld(t) ==
    /\ At(t, "copy")
    /\ stack' = SetTop(t, [Top(t) EXCEPT !.pc = "merge", !.old_data = context_data])
    /\ UNCHANGED <<storeVars, subscribers, lockOwner, lockCount, done, diffVars, sideVars>>

\* self._context_data.update(updates)
MergeUpdates(t) ==
    /\ At(t, "merge")
    /\ context_data' = Merge(context_data, Top(t).updates)
    /\ stack' = SetTop(t, [Top(t) EXCEPT !.pc = "incr"])
    /\ UNCHANGED <<current_version, versions, change_log, subscribers,
                   lockOwner, lockCount, done, diffVars, sideVars>>

\* self._current_version += 1
Increment(t) ==
    /\ At(t, "incr")
    /\ current_version' = NextVersionNumber(current_version)
    /\ stack' = SetTop(t, [Top(t) EXCEPT !.pc = "snapshot"])
    /\ UNCHANGED <<context_data, versions, change_log, subscribers,
                   lockOwner, lockCount, done, diffVars, sideVars>>

\* version = ContextVersion(...); self._versions.append(version)
Snapshot(t) ==
    /\ At(t, "snapshot")
    /\ Serializable(context_data)
    /\ versions' = AppendVersion(versions,
                      NewVersion(current_version, context_data, Top(t).changed_by))
    /\ stack' = SetTop(t, [Top(t) EXCEPT !.pc = "log", !.mine = current_version])
    /\ UNCHANGED <<context_data, current_version, change_log, subscribers,
                   lockOwner, lockCount, done, diffVars, sideVars>>

\* ContextVersion.__post_init__ raises TypeError: the exception leaves the
\* with-block (the lock is released one level) and update_context. In a
\* nested call it reaches the callback that made the call and is caught
\* by the notification loop of the outer call.
SnapshotRaises(t) ==
    /\ At(t, "snapshot")
    /\ ~Serializable(context_data)
    /\ Release(t)
    /\ stack' = Popped(t)
    /\ done' = Append(done, Finished(t, Top(t), "TypeError", 0))
    /\ UNCHANGED <<storeVars, subscribers, diffVars, sideVars>>

\* self._change_log.append({...}); then _notify_subscribers starts iterating
\* self._subscribers.items(): the iterator remembers the size of the dict.
LogChange(t) ==
    /\ At(t, "log")
    /\ change_log' = Append(change_log,
                         NewLogEntry(current_version, Top(t).changed_by,
                                     Top(t).old_data, context_data))
    /\ stack' = SetTop(t, [Top(t) EXCEPT !.pc = "notify", !.i = 1,
                                          !.used = Len(subscribers)])
    /\ UNCHANGED <<context_data, current_version, versions, subscribers,
                   lockOwner, lockCount, done, diffVars, sideVars>>

\* The record of one callback invocation callback(changes, changed_by), with
\* what the callback finds in the store when it reads it.
Invocation(t) ==
    LET f == Top(t)
        cb == subscribers[f.i].callbacks[f.j]
    IN  [sub |-> subscribers[f.i].name, idx |-> f.j, kind |-> cb.kind,
         changes |-> f.updates, changed_by |-> f.changed_by,
         latest |-> versions[Len(versions)].version,
         logged |-> change_log[Len(change_log)].version]

\* The dict iterator finds the dict changed size since the iteration began:
\* RuntimeError, raised by the for statement itself, outside the try of the
\* loop body; it leaves _notify_subscribers and update_context.
NotifyRaises(t) ==
    /\ At(t, "notify")
    /\ Len(subscribers) # Top(t).used
    /\ Release(t)
    /\ stack' = Popped(t)
    /\ done' = Append(done, Finished(t, Top(t), "RuntimeError", 0))
    /\ UNCHANGED <<storeVars, subscribers, diffVars, sideVars>>

\* for subscriber, callbacks in self._subscribers.items():
\*     if subscriber != changed_by: for callback in callbacks: ...
NotifyNext(t) ==
    /\ At(t, "notify")
    /\ Len(subscribers) = Top(t).used
    /\ Top(t).i <= Len(subscribers)
    /\ stack' = SetTop(t,
          IF ShouldNotify(subscribers[Top(t).i].name, Top(t).changed_by)
          THEN [Top(t) EXCEPT !.pc = "callbacks", !.j = 1]
          ELSE [Top(t) EXCEPT !.i = @ + 1])
    /\ UNCHANGED <<storeVars, subscribers, lockOwner, lockCount, done, diffVars, sideVars>>

\* The dict iterator is exhausted: _notify_subscribers returns.
NotifyEnd(t) ==
    /\ At(t, "notify")
    /\ Len(subscribers) = Top(t).used
    /\ Top(t).i > Len(subscribers)
    /\ stack' = SetTop(t, [Top(t) EXCEPT !.pc = "ret"])
    /\ UNCHANGED <<storeVars, subscribers, lockOwner, lockCount, done, diffVars, sideVars>>

\* The list iterator of one subscriber's callbacks is exhausted.
CallbacksEnd(t) ==
    /\ At(t, "callbacks")
    /\ Top(t).j > Len(subscribers[Top(t).i].callbacks)
    /\ stack' = SetTop(t, [Top(t) EXCEPT !.pc = "notify", !.i = @ + 1])
    /\ UNCHANGED <<storeVars, subscribers, lockOwner, lockCount, done, diffVars, sideVars>>

\* The next callback of the list is called and it has the kind asked for.
Invoking(t, kind) ==
    /\ At(t, "callbacks")
    /\ Top(t).j <= Len(subscribers[Top(t).i].callbacks)
    /\ subscribers[Top(t).i].callbacks[Top(t).j].kind = kind

\* The activation of t after it called its next callback.
Invoked(t) == [Top(t) EXCEPT !.j = @ + 1, !.inv = Append(@, Invocation(t))]

\* try: callback(changes, changed_by), and the callback returns.
InvokeOk(t) ==
    /\ Invoking(t, "ok")
    /\ stack' = SetTop(t, Invoked(t))
    /\ UNCHANGED <<storeVars, subscribers, lockOwner, lockCount, done, diffVars, sideVars>>

\* The callback raises: except Exception logs it and the loop goes on.
InvokeRaise(t) ==
    /\ Invoking(t, "raise")
    /\ stack' = SetTop(t, Invoked(t))
    /\ UNCHANGED <<storeVars, subscribers, lockOwner, lockCount, done, diffVars, sideVars>>

\* The callback calls update_context(CbUpdates, its name) on the same
\* thread: the reentrant lock lets it in, a nested activation begins.
InvokeUpdate(t) ==
    /\ Invoking(t, "update")
    /\ CanAcquire(t)
    /\ Acquire(t)
    /\ stack' = [stack EXCEPT ![t] =
          Append([@ EXCEPT ![Len(@)] = Invoked(t)],
                 NewFrame(CbUpdates, subscribers[Top(t).i].callbacks[Top(t).j].as))]
    /\ UNCHANGED <<storeVars, subscribers, done, diffVars, sideVars>>

\* The callback calls subscribe_to_changes(name, CbOk) and returns.
InvokeSubscribe(t) ==
    /\ Invoking(t, "subscribe")
    /\ subscribers' = Subscribed(subscribers,
                          subscribers[Top(t).i].callbacks[Top(t).j].as, CbOk)
    /\ stack' = SetTop(t, Invoked(t))
    /\ UNCHANGED <<storeVars, lockOwner, lockCount, done, diffVars, sideVars>>

\* return self._current_version, leaving the with-block.
Return(t) ==
    /\ At(t, "ret")
    /\ Release(t)
    /\ stack' = Popped(t)
    /\ done' = Append(done, Finished(t, Top(t), "no", current_version))
    /\ UNCHANGED <<storeVars, subscribers, diffVars, sideVars>>

Next ==
    \/ \E t \in Threads : \E r \in RegChoices : Subscribe(t, r[1], r[2])
    \/ \E t \in Threads : \E u \in UpdateSet : Call(t, u)
    \/ \E t \in Threads : CopyOld(t)
    \/ \E t \in Threads : MergeUpdates(t)
    \/ \E t \in Threads : Increment(t)
    \/ \E t \in Threads : Snapshot(t)
    \/ \E t \in Threads : SnapshotRaises(t)
    \/ \E t \in Threads : LogChange(t)
    \/ \E t \in Threads : NotifyRaises(t)
    \/ \E t \in Threads : NotifyNext(t)
    \/ \E t \in Threads : NotifyEnd(t)
    \/ \E t \in Threads : CallbacksEnd(t)
    \/ \E t \in Threads : InvokeOk(t)
    \/ \E t \in Threads : InvokeRaise(t)
    \/ \E t \in Threads : InvokeUpdate(t)
    \/ \E t \in Threads : InvokeSubscribe(t)
    \/ \E t \in Threads : Return(t)

Spec == Init /\ [][Next]_vars

\* ---------------------------------------------- _get_change_diff on its own

DiffKeys == {"a", "b", "c", "d"}

DiffValues == {"x", "y"}

\* Every document over DiffKeys and DiffValues.
DiffDocs == UNION {[S -> DiffValues] : S \in SUBSET DiffKeys}

InitDiff ==
    /\ InitStore
    /\ dOld \in DiffDocs
    /\ dNew \in DiffDocs
    /\ dOut = EmptyDiff
    /\ dDone = FALSE
    /\ InitSide

\* changes = self._get_change_diff(old_data, new_data)
ComputeDiff ==
    /\ ~dDone
    /\ dOut' = ChangeDiff(dOld, dNew)
    /\ dDone' = TRUE
    /\ UNCHANGED <<storeVars, subscribers, lockOwner, lockCount, stack, done,
                   dOld, dNew, sideVars>>

NextDiff == ComputeDiff

SpecDiff == InitDiff /\ [][NextDiff]_vars

\* ------------------------------------------------------- reads of the store
\* get_context, get_version_history and get_version, called by a thread that
\* is outside update_context; each runs as a whole under the lock. The store
\* they read is the one the update_context steps above produce, here without
\* subscribers.

KeyLists ==
    {NoKeys, KeyList(<< >>), KeyList(<<"a">>), KeyList(<<"c">>),
     KeyList(<<"b", "c">>), KeyList(<<"b", "a", "b">>)}

Limits == 0 .. (MaxVersion + 1)

VersionNumbers == 0 .. (MaxVersion + 1)

\* The call op(keys) or op(n) returns the document doc or the list of versions
\* list (None is the empty list, one version v is <<v>>).
Read(t, op, keys, n, doc, list) ==
    /\ stack[t] = << >>
    /\ CanAcquire(t)
    /\ rd' = [op |-> op, keys |-> keys, n |-> n, doc |-> doc, list |-> list,
              tick |-> 1 - rd.tick]
    /\ UNCHANGED <<storeVars, subscribers, lockOwner, lockCount, stack, done,
                   diffVars, ck, hubVars, viewVars, convVars, vd, moreVars>>

ReadContext(t, arg) ==
    Read(t, "get_context", arg, 0, GetContext(context_data, arg), << >>)

ReadVersionHistory(t, limit) ==
    Read(t, "get_version_history", NoKeys, limit, EmptyDoc,
         GetVersionHistory(versions, limit))

ReadVersion(t, n) ==
    Read(t, "get_version", NoKeys, n, EmptyDoc, GetVersion(versions, n))

NextRead ==
    \/ \E t \in Threads : \E u \in UpdateSet : Call(t, u)
    \/ \E t \in Threads : CopyOld(t)
    \/ \E t \in Threads : MergeUpdates(t)
    \/ \E t \in Threads : Increment(t)
    \/ \E t \in Threads : Snapshot(t)
    \/ \E t \in Threads : SnapshotRaises(t)
    \/ \E t \in Threads : LogChange(t)
    \/ \E t \in Threads : NotifyEnd(t)
    \/ \E t \in Threads : Return(t)
    \/ \E t \in Threads : \E arg \in KeyLists : ReadContext(t, arg)
    \/ \E t \in Threads : \E limit \in Limits : ReadVersionHistory(t, limit)
    \/ \E t \in Threads : \E n \in VersionNumbers : ReadVersion(t, n)

SpecRead == Init /\ [][NextRead]_vars

\* ------------------------------------------- ContextVersion and its checksum
\* A Python dict keeps its keys in insertion order and json.dumps writes each
\* value in the notation of its type, so here a document is the list of its
\* items, in insertion order, and a value carries its type: the int 1, the
\* float 1.0, the bool True and the str "1".

TypedValues ==
    {[t |-> "int", v |-> 1], [t |-> "int", v |-> 2], [t |-> "float", v |-> 1],
     [t |-> "bool", v |-> 1], [t |-> "str", v |-> 1]}

ItemKeys == {"a", "b"}

\* The keys of an item list.
ItemKeySet(items) == {items[i].key : i \in DOMAIN items}

\* d[key]
ItemValue(items, key) ==
    items[CHOOSE i \in DOMAIN items : items[i].key = key].value

\* d.update({key: value}): a key the dict holds keeps its place.
ItemUpdate(items, key, value) ==
    IF key \in ItemKeySet(items)
    THEN [i \in DOMAIN items |->
             IF items[i].key = key THEN [key |-> key, value |-> value]
             ELSE items[i]]
    ELSE Append(items, [key |-> key, value |-> value])

\* x == y in Python: numbers compare by value whatever their type (True is
\* 1), a str equals only a str.
PyEqual(x, y) ==
    IF x.t = "str" \/ y.t = "str" THEN x.t = y.t /\ x.v = y.v ELSE x.v = y.v

\* d1 == d2 in Python: the same keys with equal values, in any order.
DictEqual(d1, d2) ==
    /\ ItemKeySet(d1) = ItemKeySet(d2)
    /\ \A k \in ItemKeySet(d1) : PyEqual(ItemValue(d1, k), ItemValue(d2, k))

Digits(n) == IF n = 1 THEN "1" ELSE "2"

\* json.dumps of one value.
JsonValue(x) ==
    CASE x.t = "int" -> Digits(x.v)
      [] x.t = "float" -> Digits(x.v) \o ".0"
      [] x.t = "bool" -> IF x.v = 1 THEN "true" ELSE "false"
      [] OTHER -> "\"" \o Digits(x.v) \o "\""

RECURSIVE SortedByKey(_)
\* sorted(d.items()): insertion sort on the key.
SortedByKey(items) ==
    IF items = << >> THEN << >>
    ELSE LET rest == SortedByKey(Tail(items))
             x == Head(items)
             before == SelectSeq(rest, LAMBDA y : KeyRank(y.key) < KeyRank(x.key))
             after == SelectSeq(rest, LAMBDA y : KeyRank(y.key) >= KeyRank(x.key))
         IN  before \o <<x>> \o after

\* A serialization without sort_keys: the items in insertion order.
JsonDumpsUnsorted(items) ==
    [i \in DOMAIN items |-> <<items[i].key, JsonValue(items[i].value)>>]

\* json.dumps(self.context_data, sort_keys=True); sha256 of it is taken to be
\* one-to-one, as in Checksum.
JsonDumps(items) ==
    LET sorted == SortedByKey(items)
    IN  [i \in DOMAIN sorted |-> <<sorted[i].key, JsonValue(sorted[i].value)>>]

\* ContextVersion(version, timestamp, context_data, changed_by, change_summary)
\* and the checksum __post_init__ gives it.
TypedVersion(n, at, items, by) ==
    [version |-> n, timestamp |-> at, context_data |-> items,
     changed_by |-> by, change_summary |-> ItemKeySet(items),
     checksum |-> JsonDumps(items)]

RECURSIVE ItemDocs(_)
\* Every document that n or fewer single-key updates build from the empty one.
ItemDocs(n) ==
    IF n = 0 THEN {<< >>}
    ELSE LET shorter == ItemDocs(n - 1)
         IN  shorter \cup {ItemUpdate(d, k, x) :
                              d \in shorter, k \in ItemKeys, x \in TypedValues}

InitChecksum ==
    /\ InitStore
    /\ InitNoDiff
    /\ InitNoRead
    /\ InitHub
    /\ InitViews
    /\ InitConv
    /\ InitNoValidation
    /\ InitMore
    /\ ck \in [a : ItemDocs(MaxItems), b : ItemDocs(MaxItems), byA : {"A"}, byB : {"A", "B"},
               atA : {1}, atB : {1, 2}, va : {<< >>}, vb : {<< >>}]

\* Two stores snapshot their documents: version 1 of the one, version 2 of
\* the other.
BuildVersions ==
    /\ ck.va = << >>
    /\ ck' = [ck EXCEPT !.va = <<TypedVersion(1, ck.atA, ck.a, ck.byA)>>,
                        !.vb = <<TypedVersion(2, ck.atB, ck.b, ck.byB)>>]
    /\ UNCHANGED <<storeVars, subscribers, lockOwner, lockCount, stack, done,
                   diffVars, rd, hubVars, viewVars, convVars, vd, moreVars>>

NextChecksum == BuildVersions

SpecChecksum == InitChecksum /\ [][NextChecksum]_vars

\* ---------------------------------------------------- AgentCommunicationHub
\* register_agent, send_message and get_messages_for_agent. Each runs as a
\* whole under the hub's lock, handlers included: send_message calls them
\* before it returns. A handler returns ("ok") or raises ("raise").

\* Whom register_agent registers, and with which handler ("" for none).
RegisterChoices == {<<"A", "">>, <<"B", "ok">>, <<"B", "raise">>}

\* The messages passed to send_message; nobody registers "C".
MessageChoices ==
    {[sender |-> "A", recipient |-> "B", message_type |-> "story_update",
      priority |-> Priority.LOW],
     [sender |-> "B", recipient |-> "B", message_type |-> "audio_cue",
      priority |-> Priority.CRITICAL],
     [sender |-> "A", recipient |-> "broadcast", message_type |-> "story_update",
      priority |-> Priority.MEDIUM],
     [sender |-> "C", recipient |-> "A", message_type |-> "story_update",
      priority |-> Priority.MEDIUM],
     [sender |-> "A", recipient |-> "C", message_type |-> "story_update",
      priority |-> Priority.MEDIUM]}

\* Who calls get_messages_for_agent.
PollAgents == {"A", "B", "C"}

\* The message_types passed to get_messages_for_agent; none is the default.
NoTypes == [given |-> FALSE, types |-> << >>]

TypeList(ts) == [given |-> TRUE, types |-> ts]

PollFilters == {NoTypes, TypeList(<< >>), TypeList(<<"story_update">>)}

\* The record register_agent stores for an agent.
NewAgentRecord(now) ==
    [registered_at |-> now, last_active |-> now, status |-> "active",
     messages_sent |-> 0, messages_received |-> 0]

\* self._message_handlers.get(name, [])
HandlersOf(handlers, name) ==
    IF name \in DOMAIN handlers THEN handlers[name] ELSE << >>

\* A validation that does not look at the recipient.
DeliverableToAnyone(status, m) == m.sender \in DOMAIN status

\* Neither "if message.sender not in self._agent_status" nor "if
\* message.recipient not in self._agent_status and message.recipient !=
\* 'broadcast'" returns False.
Deliverable(status, m) ==
    /\ m.sender \in DOMAIN status
    /\ m.recipient \in DOMAIN status \/ m.recipient = "broadcast"

\* A dispatch that ends at the first handler that raises.
ProcessMessageUntilRaise(hs, m) ==
    LET raising == {i \in DOMAIN hs : hs[i] = "raise"}
        last == IF raising = {} THEN Len(hs)
                ELSE CHOOSE i \in raising : \A j \in raising : i <= j
    IN  [i \in 1 .. last |-> [id |-> m.id, idx |-> i, kind |-> hs[i]]]

\* _process_message: for handler in handlers: try: handler(message) except
\* Exception: log. The invocations it makes, in order.
ProcessMessage(hs, m) ==
    [i \in DOMAIN hs |-> [id |-> m.id, idx |-> i, kind |-> hs[i]]]

\* A selection that does not look at the processed flag.
SelectedEvenIfProcessed(m, agent, filter) ==
    /\ m.recipient = agent \/ m.recipient = "broadcast"
    /\ filter.types = << >>
          \/ m.message_type \in {filter.types[i] : i \in DOMAIN filter.types}

\* (message.recipient == agent_name or message.recipient == "broadcast") and
\* not message.processed, and then: not message_types or message.message_type
\* in message_types. None and the empty list are both false.
Selected(m, agent, filter) ==
    /\ m.recipient = agent \/ m.recipient = "broadcast"
    /\ ~m.processed
    /\ filter.types = << >>
          \/ m.message_type \in {filter.types[i] : i \in DOMAIN filter.types}

\* A retrieval that returns the selected messages by priority, the highest
\* first.
CollectByPriority(queue, agent, filter) ==
    LET selected == SelectSeq(queue, LAMBDA m : Selected(m, agent, filter))
        of(p) == SelectSeq(selected, LAMBDA m : m.priority = p)
    IN  of(Priority.CRITICAL) \o of(Priority.HIGH) \o of(Priority.MEDIUM)
            \o of(Priority.LOW)

\* messages = []; for message in self._message_queue: if ...:
\*     messages.append(message)
Collect(queue, agent, filter) ==
    SelectSeq(queue, LAMBDA m : Selected(m, agent, filter))

\* for message in messages: message.processed = True
MarkProcessed(queue, agent, filter) ==
    [i \in DOMAIN queue |->
        IF Selected(queue[i], agent, filter)
        THEN [queue[i] EXCEPT !.processed = TRUE]
        ELSE queue[i]]

\* What the hub operations never touch.
notHubVars ==
    <<storeVars, subscribers, lockOwner, lockCount, stack, done, diffVars, rd, ck,
      viewVars, active_conversations, convCalls, vd, moreVars>>

\* register_agent(name, handler)
RegisterAgent(name, handler) ==
    /\ hubCalls.register < MaxRegs
    /\ agent_status' = Put(agent_status, name, NewAgentRecord(hubNow + 1))
    /\ message_handlers' =
          IF handler # ""
          THEN Put(message_handlers, name,
                   Append(HandlersOf(message_handlers, name), handler))
          ELSE message_handlers
    /\ hubNow' = hubNow + 1
    /\ hubCalls' = [hubCalls EXCEPT !.register = @ + 1, !.names = @ \cup {name}]
    /\ hubLast' = [NoHubCall EXCEPT !.op = "register", !.agent = name,
                                    !.handler = handler, !.ok = TRUE]
    /\ convLast' = NoConvCall
    /\ UNCHANGED <<message_queue, returned, invoked, rejected, notHubVars>>

\* send_message(message), the message a new AgentMessage of choice c.
SendMessage(c) ==
    LET m == [NoMessage EXCEPT !.id = hubCalls.send + 1, !.sender = c.sender,
                               !.recipient = c.recipient,
                               !.message_type = c.message_type,
                               !.priority = c.priority]
        ok == Deliverable(agent_status, m)
    IN  /\ hubCalls.send < MaxSends
        /\ hubCalls' = [hubCalls EXCEPT !.send = @ + 1]
        /\ hubLast' = [NoHubCall EXCEPT !.op = "send", !.message = m, !.ok = ok]
        /\ convLast' = NoConvCall
        /\ IF ok
           THEN /\ message_queue' = Append(message_queue, m)
                /\ agent_status' =
                      [agent_status EXCEPT ![m.sender].messages_sent = @ + 1,
                                           ![m.sender].last_active = hubNow + 1]
                /\ hubNow' = hubNow + 1
                /\ invoked' =
                      IF m.recipient # "broadcast"
                      THEN invoked \o
                           ProcessMessage(HandlersOf(message_handlers, m.recipient), m)
                      ELSE invoked
                /\ UNCHANGED rejected
           ELSE /\ rejected' = rejected \cup {m.id}
                /\ UNCHANGED <<message_queue, agent_status, hubNow, invoked>>
        /\ UNCHANGED <<message_handlers, returned, notHubVars>>

\* get_messages_for_agent(agent, message_types)
GetMessagesForAgent(agent, filter) ==
    LET messages == Collect(message_queue, agent, filter)
        mine == SelectSeq(messages, LAMBDA m : m.recipient # "broadcast")
    IN  /\ message_queue' = MarkProcessed(message_queue, agent, filter)
        /\ agent_status' =
              IF mine # << >>
              THEN [agent_status EXCEPT ![agent].messages_received = @ + Len(mine)]
              ELSE agent_status
        /\ returned' = returned \o
              [i \in DOMAIN messages |->
                  [id |-> messages[i].id, to |-> agent,
                   recipient |-> messages[i].recipient]]
        /\ hubLast' = [NoHubCall EXCEPT !.op = "poll", !.agent = agent,
                                        !.types = filter, !.ok = TRUE,
                                        !.ids = [i \in DOMAIN messages |-> messages[i].id]]
        /\ convLast' = NoConvCall
        /\ UNCHANGED <<message_handlers, hubNow, hubCalls, invoked, rejected,
                       notHubVars>>

NextHub ==
    \/ \E r \in RegisterChoices : RegisterAgent(r[1], r[2])
    \/ \E c \in MessageChoices : SendMessage(c)
    \/ \E agent \in PollAgents : \E filter \in PollFilters :
          GetMessagesForAgent(agent, filter)

SpecHub == Init /\ [][NextHub]_vars

\* ------------------------------------------------------------ conversations
\* start_conversation, add_to_conversation, request_collaboration and
\* get_agent_statistics, each run by one caller from call to return, with the
\* send_message calls they make.

\* How many conversation operations are called.
MaxConvCalls == 3

\* (initiator, participants, topic) passed to start_conversation.
StartChoices ==
    {<<"A", <<"A", "B">>, "quest">>, <<"A", <<"A", "B", "C">>, "quest">>}

\* (requester, target_agents, task_description) passed to request_collaboration.
CollabChoices ==
    {<<"A", <<"B", "Z", "B">>, "scene">>, <<"C", <<"A", "B">>, "scene">>}

\* Whom register_agent registers while conversations are held.
ConvRegisterChoices == {<<"A", "">>, <<"B", "ok">>}

\* The messages passed to send_message while conversations are held.
ConvMessageChoices ==
    {c \in MessageChoices : c.recipient = "B" /\ c.sender = "A"}

\* The conversation ids a caller passes to add_to_conversation: one it was
\* given, or one no conversation has.
ConversationIds == DOMAIN active_conversations \cup {"nope"}

\* Who posts to a conversation.
Posters == {"A", "C"}

\* What datetime.now() may return: the last reading or a later one.
ClockReadings == {hubNow, hubNow + 1}

DigitChars == <<"0", "1", "2", "3", "4", "5", "6", "7", "8", "9">>

RECURSIVE ClockText(_)
\* str(datetime.now()), the clock counting from 0.
ClockText(n) ==
    IF n < 10 THEN DigitChars[n + 1]
    ELSE ClockText(n \div 10) \o DigitChars[(n % 10) + 1]

\* hashlib.md5(f"{who}_{what}_{datetime.now()}".encode()).hexdigest()[:8]: the
\* digest stands for the text it is made of.
Digest(who, what, now) == who \o "_" \o what \o "_" \o ClockText(now)

\* What send_message reads and writes, and the results of the calls made.
HubState ==
    [agent_status |-> agent_status, message_queue |-> message_queue,
     now |-> hubNow, invoked |-> invoked, rejected |-> rejected,
     sends |-> hubCalls.send, results |-> << >>]

\* send_message(message) on the hub h, the message m with a new id.
Sent(h, message) ==
    LET m == [message EXCEPT !.id = h.sends + 1]
    IN  IF Deliverable(h.agent_status, m)
        THEN [h EXCEPT
                !.message_queue = Append(@, m),
                !.agent_status = [@ EXCEPT ![m.sender].messages_sent = @ + 1,
                                           ![m.sender].last_active = h.now + 1],
                !.now = @ + 1,
                !.invoked = IF m.recipient # "broadcast"
                            THEN @ \o ProcessMessage(
                                     HandlersOf(message_handlers, m.recipient), m)
                            ELSE @,
                !.sends = @ + 1,
                !.results = Append(@, TRUE)]
        ELSE [h EXCEPT !.rejected = @ \cup {m.id}, !.sends = @ + 1,
                       !.results = Append(@, FALSE)]

RECURSIVE SentAll(_, _)
\* for ...: self.send_message(...), one call after the other.
SentAll(h, messages) ==
    IF messages = << >> THEN h
    ELSE SentAll(Sent(h, Head(messages)), Tail(messages))

\* The hub after the calls that led to h.
HubBecomes(h) ==
    /\ agent_status' = h.agent_status
    /\ message_queue' = h.message_queue
    /\ hubNow' = h.now
    /\ invoked' = h.invoked
    /\ rejected' = h.rejected
    /\ hubCalls' = [hubCalls EXCEPT !.send = h.sends]
    /\ hubLast' = NoHubCall
    /\ UNCHANGED <<message_handlers, returned>>

ConvCallsMade == convCalls.start + convCalls.add + convCalls.collaborate

\* What the conversation operations never touch.
notConvVars ==
    <<storeVars, subscribers, lockOwner, lockCount, stack, done, diffVars, rd, ck,
      viewVars, vd, moreVars>>

\* invite_message = AgentMessage(sender="communication_hub", ...)
Invite(initiator, participant, conversation_id) ==
    [NoMessage EXCEPT !.sender = "communication_hub", !.recipient = participant,
                      !.message_type = "collaboration_request",
                      !.content = [NoContent EXCEPT
                                      !.conversation_id = conversation_id],
                      !.priority = Priority.HIGH]

\* start_conversation(initiator, participants, topic), the clock read as now.
StartConversation(initiator, participants, topic, now) ==
    LET conversation_id == Digest(initiator, topic, now)
        others == SelectSeq(participants, LAMBDA p : p # initiator)
        invites == [i \in DOMAIN others |->
                       Invite(initiator, others[i], conversation_id)]
        h == SentAll([HubState EXCEPT !.now = now], invites)
    IN  /\ ConvCallsMade < MaxConvCalls
        /\ active_conversations' =
              Put(active_conversations, conversation_id,
                  [id |-> conversation_id, initiator |-> initiator,
                   participants |-> participants, topic |-> topic,
                   started_at |-> now, messages |-> << >>, status |-> "active"])
        /\ HubBecomes(h)
        /\ convCalls' = [convCalls EXCEPT !.start = @ + 1]
        /\ convLast' = [NoConvCall EXCEPT !.op = "start", !.id = conversation_id,
                                          !.agent = initiator,
                                          !.names = participants, !.ok = TRUE]
        /\ UNCHANGED notConvVars

\* notify_message = AgentMessage(sender=sender, ...), of the default priority.
Notify(sender, participant, conversation_id) ==
    [NoMessage EXCEPT !.sender = sender, !.recipient = participant,
                      !.message_type = "collaboration_request",
                      !.content = [NoContent EXCEPT
                                      !.conversation_id = conversation_id],
                      !.priority = Priority.MEDIUM]

\* A check that looks at the conversation id only.
Postable(conversations, conversation_id, sender) ==
    conversation_id \in DOMAIN conversations

\* Neither "if conversation_id not in self._active_conversations" nor "if
\* sender not in conversation['participants']" returns False.
MayPost(conversations, conversation_id, sender) ==
    /\ conversation_id \in DOMAIN conversations
    /\ \E i \in DOMAIN conversations[conversation_id].participants :
          conversations[conversation_id].participants[i] = sender

\* add_to_conversation(conversation_id, sender, content)
AddToConversation(conversation_id, sender, content) ==
    LET ok == MayPost(active_conversations, conversation_id, sender)
        conversation == active_conversations[conversation_id]
        others == SelectSeq(conversation.participants, LAMBDA p : p # sender)
        notes == [i \in DOMAIN others |-> Notify(sender, others[i], conversation_id)]
        h == SentAll(HubState, notes)
    IN  /\ ConvCallsMade < MaxConvCalls
        /\ convCalls' = [convCalls EXCEPT !.add = @ + 1]
        /\ convLast' = [NoConvCall EXCEPT !.op = "add", !.id = conversation_id,
                                          !.agent = sender, !.ok = ok]
        /\ IF ok
           THEN /\ active_conversations' =
                      [active_conversations EXCEPT
                          ![conversation_id].messages =
                              Append(@, [sender |-> sender, content |-> content,
                                         timestamp |-> hubNow])]
                /\ HubBecomes(h)
           ELSE /\ hubLast' = NoHubCall
                /\ UNCHANGED <<active_conversations, agent_status,
                               message_handlers, message_queue, hubNow, hubCalls,
                               returned, invoked, rejected>>
        /\ UNCHANGED notConvVars

\* timedelta(minutes=5)
ResponseMinutes == 5

\* message = AgentMessage(sender=requester, ..., requires_response=True, ...)
CollaborationMessage(requester, agent, collaboration_id, now) ==
    [NoMessage EXCEPT !.sender = requester, !.recipient = agent,
                      !.message_type = "collaboration_request",
                      !.content = [NoContent EXCEPT
                                      !.collaboration_id = collaboration_id],
                      !.priority = Priority.HIGH,
                      !.requires_response = TRUE,
                      !.response_deadline = now + ResponseMinutes]

\* A collection that keeps every target, whatever send_message returned.
EveryTarget(target_agents, results) == target_agents

\* if self.send_message(message): responses.append(agent)
Responses(target_agents, results) ==
    LET RECURSIVE Keep(_)
        Keep(i) == IF i > Len(target_agents) THEN << >>
                   ELSE IF results[i] THEN <<target_agents[i]>> \o Keep(i + 1)
                   ELSE Keep(i + 1)
    IN  Keep(1)

\* request_collaboration(requester, target_agents, task_description, context),
\* the clock read as now.
RequestCollaboration(requester, target_agents, task_description, now) ==
    LET collaboration_id == Digest(requester, task_description, now)
        messages == [i \in DOMAIN target_agents |->
                        CollaborationMessage(requester, target_agents[i],
                                             collaboration_id, now)]
        h == SentAll([HubState EXCEPT !.now = now], messages)
    IN  /\ ConvCallsMade < MaxConvCalls
        /\ convCalls' = [convCalls EXCEPT !.collaborate = @ + 1]
        /\ HubBecomes(h)
        /\ convLast' = [NoConvCall EXCEPT
                           !.op = "collaborate", !.id = collaboration_id,
                           !.agent = requester, !.names = target_agents,
                           !.ok = TRUE,
                           !.out = Responses(target_agents, h.results)]
        /\ UNCHANGED active_conversations
        /\ UNCHANGED notConvVars

\* [c for c in self._active_conversations.values() if c["status"] == "active"]
ActiveOf(conversations) ==
    {c \in DOMAIN conversations : conversations[c].status = "active"}

\* stats = {"total_agents": ..., "total_messages": ..., "active_conversations": ...}
AgentStatistics ==
    [total_agents |-> Cardinality(DOMAIN agent_status),
     total_messages |-> Len(message_queue),
     active_conversations |-> Cardinality(ActiveOf(active_conversations))]

\* get_agent_statistics()
GetAgentStatistics ==
    /\ convLast' = [NoConvCall EXCEPT !.op = "statistics", !.ok = TRUE,
                                      !.stats = AgentStatistics]
    /\ hubLast' = NoHubCall
    /\ UNCHANGED <<active_conversations, convCalls, agent_status,
                   message_handlers, message_queue, hubNow, hubCalls, returned,
                   invoked, rejected, notConvVars>>

NextConv ==
    \/ \E r \in ConvRegisterChoices : RegisterAgent(r[1], r[2])
    \/ \E c \in StartChoices : \E now \in ClockReadings :
          StartConversation(c[1], c[2], c[3], now)
    \/ \E id \in ConversationIds : \E sender \in Posters :
          AddToConversation(id, sender, "hello")
    \/ \E c \in CollabChoices : RequestCollaboration(c[1], c[2], c[3], hubNow)

\* The hub with its statistics read between the calls.
NextStats ==
    \/ \E r \in ConvRegisterChoices : RegisterAgent(r[1], r[2])
    \/ \E c \in ConvMessageChoices : SendMessage(c)
    \/ GetMessagesForAgent("B", NoTypes)
    \/ \E now \in ClockReadings :
          StartConversation("A", <<"A", "B">>, "quest", now)
    \/ RequestCollaboration("A", <<"B", "Z">>, "scene", hubNow)
    \/ GetAgentStatistics

SpecStats == Init /\ [][NextStats]_vars

SpecConv == Init /\ [][NextConv]_vars

\* -------------------------------------------------- validate_story_consistency
\* One call of validate_story_consistency: vd.current is the document of the
\* store when the call reads it, vd.proposed the proposed_changes passed.

\* The values of current_location, player_health and story_progress in the
\* store, and those proposed.
StoredLocations == {"Forest"}

ProposedLocations == {"Forest", "Cave", ""}

StoredHealths == {-60, 50, 100}

ProposedHealths == {-1, 0, 100, 101, 120, 150, 151}

StoredProgresses == {0, 40}

ProposedProgresses == {-1, 0, 30, 40, 50}

\* The documents with the key and one of the values, and the one without.
WithOrWithout(key, values) ==
    {EmptyDoc} \cup {[k \in {key} |-> v] : v \in values}

\* The documents that have, for some of the three keys, a value of its set.
StoryDocs(locations, healths, progresses) ==
    {Merge(Merge(l, h), p) :
        l \in WithOrWithout("current_location", locations),
        h \in WithOrWithout("player_health", healths),
        p \in WithOrWithout("story_progress", progresses)}

\* dict.get(key, default)
DictGet(d, key, default) == IF key \in DOMAIN d THEN d[key] ELSE default

\* if "current_location" in proposed_changes: ... warnings.append(...)
LocationWarnings(current_context, proposed_changes) ==
    IF "current_location" \in DOMAIN proposed_changes
    THEN IF proposed_changes["current_location"]
               = DictGet(current_context, "current_location", "")
         THEN <<"Location change to same location">>
         ELSE << >>
    ELSE << >>

\* A health check that takes an absent player_health as 0.
HealthConflictsFromZero(current_context, proposed_changes) ==
    IF "player_health" \in DOMAIN proposed_changes
    THEN LET new_health == proposed_changes["player_health"]
             current_health == DictGet(current_context, "player_health", 0)
         IN  (IF new_health > current_health + 50
              THEN <<"Excessive health increase without explanation">>
              ELSE << >>)
             \o (IF new_health < 0
                 THEN <<"Player health cannot be negative">>
                 ELSE << >>)
    ELSE << >>

\* if "player_health" in proposed_changes: ... conflicts.append(...)
HealthConflicts(current_context, proposed_changes) ==
    IF "player_health" \in DOMAIN proposed_changes
    THEN LET new_health == proposed_changes["player_health"]
             current_health == DictGet(current_context, "player_health", 100)
         IN  (IF new_health > current_health + 50
              THEN <<"Excessive health increase without explanation">>
              ELSE << >>)
             \o (IF new_health < 0
                 THEN <<"Player health cannot be negative">>
                 ELSE << >>)
    ELSE << >>

\* A progress check that also turns down an unchanged progress.
ProgressConflictsUnlessHigher(current_context, proposed_changes) ==
    IF "story_progress" \in DOMAIN proposed_changes
    THEN IF proposed_changes["story_progress"]
               <= DictGet(current_context, "story_progress", 0)
         THEN <<"Story progress cannot go backwards">>
         ELSE << >>
    ELSE << >>

\* if "story_progress" in proposed_changes: ... conflicts.append(...)
ProgressConflicts(current_context, proposed_changes) ==
    IF "story_progress" \in DOMAIN proposed_changes
    THEN IF proposed_changes["story_progress"]
               < DictGet(current_context, "story_progress", 0)
         THEN <<"Story progress cannot go backwards">>
         ELSE << >>
    ELSE << >>

\* A verdict that warnings spoil too.
IsValidWithoutWarnings(conflicts, warnings) ==
    Len(conflicts) = 0 /\ Len(warnings) = 0

\* "is_valid": len(conflicts) == 0
IsValid(conflicts, warnings) == Len(conflicts) = 0

\* validate_story_consistency(proposed_changes, requesting_agent), the store
\* holding the document doc.
ValidateStoryConsistency(doc, proposed_changes) ==
    LET current_context == GetContext(doc, NoKeys)
        warnings == LocationWarnings(current_context, proposed_changes)
        conflicts == HealthConflicts(current_context, proposed_changes)
                        \o ProgressConflicts(current_context, proposed_changes)
    IN  [is_valid |-> IsValid(conflicts, warnings), conflicts |-> conflicts,
         warnings |-> warnings, validated_by |-> "communication_hub"]

InitValidate ==
    /\ InitStore
    /\ InitNoDiff
    /\ InitNoRead
    /\ InitNoChecksum
    /\ InitHub
    /\ InitViews
    /\ InitConv
    /\ InitMore
    /\ vd \in [current : StoryDocs(StoredLocations, StoredHealths, StoredProgresses),
               proposed : StoryDocs(ProposedLocations, ProposedHealths,
                                    ProposedProgresses),
               is_valid : {TRUE}, conflicts : {<< >>}, warnings : {<< >>},
               done : {FALSE}]

\* result = hub.validate_story_consistency(proposed, agent)
Validate ==
    LET result == ValidateStoryConsistency(vd.current, vd.proposed)
    IN  /\ ~vd.done
        /\ vd' = [vd EXCEPT !.is_valid = result.is_valid,
                            !.conflicts = result.conflicts,
                            !.warnings = result.warnings, !.done = TRUE]
        /\ UNCHANGED <<storeVars, subscribers, lockOwner, lockCount, stack, done,
                       diffVars, rd, ck, hubVars, viewVars, convVars, moreVars>>

NextValidate == Validate

SpecValidate == InitValidate /\ [][NextValidate]_vars

\* ----------------------------------------------------- StoryConsistencyManager
\* One call of validate_changes: vc.current is the document of the store when
\* the call reads it, vc.proposed the proposed_changes passed.

\* self._consistency_rules after _initialize_default_rules, without the checks.
DefaultRules ==
    <<[name |-> "health_bounds",
       message |-> "Player health must be between 0 and 100"],
      [name |-> "progress_monotonic",
       message |-> "Story progress cannot be negative"],
      [name |-> "required_fields",
       message |-> "Required fields must be present"]>>

\* rule["check"](ctx), the lambda of the rule.
Check(rule, ctx) ==
    CASE rule.name = "health_bounds" ->
            /\ 0 <= DictGet(ctx, "player_health", 100)
            /\ DictGet(ctx, "player_health", 100) <= 100
      [] rule.name = "progress_monotonic" ->
            DictGet(ctx, "story_progress", 0) >= 0
      [] OTHER ->
            \A field \in {"player_name", "current_location"} : field \in DOMAIN ctx

RECURSIVE ViolationsUntilFirst(_, _)
\* A loop that stops at the first rule that fails.
ViolationsUntilFirst(rules, ctx) ==
    IF rules = << >> THEN << >>
    ELSE IF ~Check(Head(rules), ctx)
         THEN <<[rule |-> Head(rules).name, message |-> Head(rules).message]>>
         ELSE ViolationsUntilFirst(Tail(rules), ctx)

RECURSIVE Violations(_, _)
\* for rule in self._consistency_rules: if not rule["check"](test_context):
\*     violations.append({"rule": rule["name"], "message": rule["message"]})
Violations(rules, ctx) ==
    IF rules = << >> THEN << >>
    ELSE (IF ~Check(Head(rules), ctx)
          THEN <<[rule |-> Head(rules).name, message |-> Head(rules).message]>>
          ELSE << >>)
         \o Violations(Tail(rules), ctx)

\* A validation without the copies: test_context is the store's own dict,
\* and the proposed changes land in the store.
ValidateChangesInPlace(doc, proposed_changes) ==
    LET test_context == Merge(doc, proposed_changes)
        violations == Violations(DefaultRules, test_context)
    IN  [is_valid |-> Len(violations) = 0, violations |-> violations,
         store |-> test_context]

\* validate_changes(proposed_changes), the store holding the document doc.
ValidateChanges(doc, proposed_changes) ==
    LET current_context == GetContext(doc, NoKeys)
        test_context == Merge(current_context, proposed_changes)
        violations == Violations(DefaultRules, test_context)
    IN  [is_valid |-> Len(violations) = 0, violations |-> violations,
         store |-> doc]

\* The values of the rule keys in the store, and those proposed.
StoredNames == {"Hero"}

RuleStoredHealths == {50, 120}

RuleStoredProgresses == {10}

RuleProposedLocations == {"Cave"}

RuleProposedHealths == {-1, 0, 100, 101}

RuleProposedProgresses == {-1, 0}

\* The story documents with or without a player_name.
RuleDocs(names, locations, healths, progresses) ==
    {Merge(n, d) : n \in WithOrWithout("player_name", names),
                   d \in StoryDocs(locations, healths, progresses)}

InitRules ==
    /\ InitStore
    /\ InitNoDiff
    /\ InitNoRead
    /\ InitNoChecksum
    /\ InitHub
    /\ InitViews
    /\ InitConv
    /\ InitNoValidation
    /\ rc = NoResolution
    /\ breaker = NoBreaker
    /\ producers = << >>
    /\ hubLock = NewLock
    /\ hthreads = << >>
    /\ vc \in [current : RuleDocs(StoredNames, StoredLocations, RuleStoredHealths,
                                  RuleStoredProgresses),
               proposed : RuleDocs(StoredNames, RuleProposedLocations,
                                   RuleProposedHealths, RuleProposedProgresses),
               is_valid : {TRUE}, violations : {<< >>}, done : {FALSE}]

\* result = manager.validate_changes(proposed)
CheckRules ==
    LET result == ValidateChanges(vc.current, vc.proposed)
    IN  /\ ~vc.done
        /\ vc' = [vc EXCEPT !.is_valid = result.is_valid,
                            !.violations = result.violations, !.done = TRUE]
        /\ UNCHANGED <<storeVars, subscribers, lockOwner, lockCount, stack, done,
                       diffVars, rd, ck, hubVars, viewVars, convVars, vd, rc,
                       breaker, producers, hubLock, hthreads>>

NextRules == CheckRules

SpecRules == InitRules /\ [][NextRules]_vars

\* One call of resolve_conflicts: rc.conflicts is the list passed, rc.resolvers
\* what self._conflict_resolvers holds: per conflict type, a resolver that
\* returns a resolution ("ok") or raises ("raise").

\* The longest list of conflicts passed.
MaxConflicts == 5

\* The "type" of a conflict; "" stands for a conflict without that key.
ConflictTypes == {"heal", "warp", "lost", ""}

\* The i-th conflict of a list, of the type given.
Conflict(i, type) ==
    IF type = "" THEN [k \in {"id"} |-> i]
    ELSE [k \in {"id", "type"} |-> IF k = "id" THEN i ELSE type]

\* The lists of at most n conflicts.
ConflictLists(n) ==
    UNION {{[i \in 1..m |-> Conflict(i, ts[i])] : ts \in [1..m -> ConflictTypes]} :
           m \in 0..n}

ResolverSets ==
    {<< >>,
     [t \in {"heal", "warp"} |-> IF t = "heal" THEN "ok" ELSE "raise"],
     [t \in {"heal", "warp", "unknown"} |-> IF t = "warp" THEN "raise" ELSE "ok"]}

\* What a resolver that returns hands back for a conflict.
Resolution(conflict) == [resolution_of |-> conflict.id]

RECURSIVE ResolvedDroppingFailed(_, _)
\* A loop that forgets the conflict whose resolver raised.
ResolvedDroppingFailed(conflicts, resolvers) ==
    IF conflicts = << >> THEN [resolved |-> << >>, unresolved |-> << >>]
    ELSE LET conflict == Head(conflicts)
             conflict_type == DictGet(conflict, "type", "unknown")
             rest == ResolvedDroppingFailed(Tail(conflicts), resolvers)
         IN  IF conflict_type \in DOMAIN resolvers
             THEN IF resolvers[conflict_type] = "ok"
                  THEN [rest EXCEPT !.resolved = <<Resolution(conflict)>> \o @]
                  ELSE rest
             ELSE [rest EXCEPT !.unresolved = <<conflict>> \o @]

RECURSIVE Resolved(_, _)
\* for conflict in conflicts: ... resolved.append(resolution) /
\* unresolved.append(conflict)
Resolved(conflicts, resolvers) ==
    IF conflicts = << >> THEN [resolved |-> << >>, unresolved |-> << >>]
    ELSE LET conflict == Head(conflicts)
             conflict_type == DictGet(conflict, "type", "unknown")
             rest == Resolved(Tail(conflicts), resolvers)
         IN  IF conflict_type \in DOMAIN resolvers
             THEN IF resolvers[conflict_type] = "ok"
                  THEN [rest EXCEPT !.resolved = <<Resolution(conflict)>> \o @]
                  ELSE [rest EXCEPT !.unresolved = <<conflict>> \o @]
             ELSE [rest EXCEPT !.unresolved = <<conflict>> \o @]

InitResolve ==
    /\ InitStore
    /\ InitNoDiff
    /\ InitNoRead
    /\ InitNoChecksum
    /\ InitHub
    /\ InitViews
    /\ InitConv
    /\ InitNoValidation
    /\ vc = NoRuleCheck
    /\ breaker = NoBreaker
    /\ producers = << >>
    /\ hubLock = NewLock
    /\ hthreads = << >>
    /\ rc \in [conflicts : ConflictLists(MaxConflicts), resolvers : ResolverSets,
               resolved : {<< >>}, unresolved : {<< >>}, raised : {FALSE},
               done : {FALSE}]

\* result = manager.resolve_conflicts(conflicts): every exception of a
\* resolver is caught, the call returns.
ResolveConflicts ==
    LET result == Resolved(rc.conflicts, rc.resolvers)
    IN  /\ ~rc.done
        /\ rc' = [rc EXCEPT !.resolved = result.resolved,
                            !.unresolved = result.unresolved,
                            !.raised = FALSE, !.done = TRUE]
        /\ UNCHANGED <<storeVars, subscribers, lockOwner, lockCount, stack, done,
                       diffVars, rd, ck, hubVars, viewVars, convVars, vd, vc,
                       breaker, producers, hubLock, hthreads>>

NextResolve == ResolveConflicts

SpecResolve == InitResolve /\ [][NextResolve]_vars

\* --------------------------------------------------------- CircuitBreaker
\* breaker holds the fields of one CircuitBreaker, the clock datetime.now()
\* reads (in seconds), and of its last call: outcome ("returned", "raised" by
\* the function, "rejected" by the breaker), ran (the function was invoked),
\* trial (it was invoked in state HALF_OPEN). failures_in_a_row counts the
\* invocations that raised since the last one that returned.

\* The latest reading of the clock.
MaxClock == 4

\* The calls made on the breaker.
MaxCalls == 5

FailureThresholds == {1, 2}

RecoveryTimeouts == {1, 2}

\* CircuitBreaker(failure_threshold, recovery_timeout)
NewBreaker(failure_threshold, recovery_timeout) ==
    [NoBreaker EXCEPT !.failure_threshold = failure_threshold,
                      !.recovery_timeout = recovery_timeout]

\* A reset attempted as soon as recovery_timeout seconds have passed.
ShouldAttemptResetAtTimeout(b) ==
    \/ ~b.last_failure_time.set
    \/ b.now - b.last_failure_time.at >= b.recovery_timeout

\* _should_attempt_reset
ShouldAttemptReset(b) ==
    \/ ~b.last_failure_time.set
    \/ b.now - b.last_failure_time.at > b.recovery_timeout

\* _on_success
OnSuccess(b) == [b EXCEPT !.failure_count = 0, !.state = "CLOSED"]

\* _on_failure
OnFailure(b) ==
    LET count == b.failure_count + 1
    IN  [b EXCEPT !.failure_count = count,
                  !.last_failure_time = [set |-> TRUE, at |-> b.now],
                  !.state = IF count >= b.failure_threshold THEN "OPEN" ELSE @]

InitBreaker ==
    /\ InitStore
    /\ InitNoDiff
    /\ InitNoRead
    /\ InitNoChecksum
    /\ InitHub
    /\ InitViews
    /\ InitConv
    /\ InitNoValidation
    /\ vc = NoRuleCheck
    /\ rc = NoResolution
    /\ producers = << >>
    /\ hubLock = NewLock
    /\ hthreads = << >>
    /\ breaker \in {NewBreaker(f, r) : f \in FailureThresholds, r \in RecoveryTimeouts}

notBreakerVars ==
    <<storeVars, subscribers, lockOwner, lockCount, stack, done, diffVars, rd, ck,
      hubVars, viewVars, convVars, vd, vc, rc, producers, hubLock, hthreads>>

\* breaker.call(func) with a function that returns (raises = FALSE) or raises
\* an Exception; the whole call runs under the breaker's lock.
BreakerCall(raises) ==
    /\ breaker.calls < MaxCalls
    /\ LET b == [breaker EXCEPT !.calls = @ + 1]
       IN  IF b.state = "OPEN" /\ ~ShouldAttemptReset(b)
           THEN breaker' = [b EXCEPT !.outcome = "rejected", !.ran = FALSE,
                                     !.trial = FALSE]
           ELSE LET entered == IF b.state = "OPEN"
                               THEN [b EXCEPT !.state = "HALF_OPEN"] ELSE b
                    ran == [entered EXCEPT !.ran = TRUE,
                                           !.trial = entered.state = "HALF_OPEN"]
                IN  breaker' =
                        IF raises
                        THEN [OnFailure(ran) EXCEPT
                                  !.outcome = "raised",
                                  !.failures_in_a_row = @ + 1]
                        ELSE [OnSuccess(ran) EXCEPT
                                  !.outcome = "returned",
                                  !.failures_in_a_row = 0]
    /\ UNCHANGED notBreakerVars

\* A second passes.
Tick ==
    /\ breaker.now < MaxClock
    /\ breaker' = [breaker EXCEPT !.now = @ + 1]
    /\ UNCHANGED notBreakerVars

NextBreaker ==
    \/ \E raises \in BOOLEAN : BreakerCall(raises)
    \/ Tick

SpecBreaker == InitBreaker /\ [][NextBreaker]_vars

\* ------------------------------------------------------ validate, then commit
\* Each thread is a producer that proposes a change, has the hub validate it
\* against the store and, when the hub found it valid, commits it with
\* update_context. producers[t] holds where the producer is ("idle",
\* "validated", "rejected") and the change it proposed. The store has no
\* subscribers here, and a whole update_context is one step: it runs under the
\* store's lock.

\* The changes producers propose.
StoryProposals ==
    (StoryDocs({"Cave"}, {}, {10, 20}) \cup StoryDocs({}, {-5}, {20})) \ {EmptyDoc}

NoProposal == [pc |-> "idle", proposal |-> EmptyDoc]

RECURSIVE Notified(_, _)
\* The names of the subscribers _notify_subscribers calls back, one per
\* callback, in the order of the registry.
Notified(subs, changed_by) ==
    IF subs = << >> THEN << >>
    ELSE (IF ShouldNotify(subs[1].name, changed_by)
          THEN [c \in DOMAIN subs[1].callbacks |-> subs[1].name]
          ELSE << >>) \o Notified(Tail(subs), changed_by)

\* update_context(updates, changed_by) of a JSON-serializable updates dict,
\* from the acquisition of the lock to its release, with callbacks that
\* return: the document, the counter, the version list, the change log, and
\* the record of the call in done.
UpdateContext(updates, changed_by) ==
    LET old_data == context_data
        new_data == Merge(context_data, updates)
        n == NextVersionNumber(current_version)
    IN  /\ context_data' = new_data
        /\ current_version' = n
        /\ versions' = AppendVersion(versions, NewVersion(n, new_data, changed_by))
        /\ change_log' = Append(change_log, NewLogEntry(n, changed_by, old_data, new_data))
        /\ done' = Append(done, [version |-> n, changed_by |-> changed_by,
                                 notified |-> Notified(subscribers, changed_by)])

InitStory ==
    /\ InitStore
    /\ InitNoDiff
    /\ InitNoRead
    /\ InitNoChecksum
    /\ InitHub
    /\ InitViews
    /\ InitConv
    /\ InitNoValidation
    /\ vc = NoRuleCheck
    /\ rc = NoResolution
    /\ breaker = NoBreaker
    /\ hubLock = NewLock
    /\ hthreads = << >>
    /\ producers = [t \in Threads |-> NoProposal]

notStoryVars ==
    <<diffVars, rd, ck, hubVars, viewVars, convVars, vd, vc, rc, breaker, hubLock,
      hthreads>>

\* Producer t has the hub validate a change:
\* hub.validate_story_consistency(proposal, Producer(t))
ProducerValidates(t, proposal) ==
    /\ producers[t].pc # "validated"
    /\ CanAcquire(t)
    /\ producers' =
          [producers EXCEPT ![t] =
              [pc |-> IF ValidateStoryConsistency(context_data, proposal).is_valid
                      THEN "validated" ELSE "rejected",
               proposal |-> proposal]]
    /\ UNCHANGED <<storeVars, subscribers, lockOwner, lockCount, stack, done,
                   notStoryVars>>

\* Producer t commits the change the hub found valid:
\* context_db.update_context(proposal, Producer(t))
ProducerCommits(t) ==
    /\ producers[t].pc = "validated"
    /\ CanAcquire(t)
    /\ current_version < MaxVersion
    /\ UpdateContext(producers[t].proposal, Producer(t))
    /\ producers' = [producers EXCEPT ![t] = NoProposal]
    /\ UNCHANGED <<subscribers, lockOwner, lockCount, stack, notStoryVars>>

NextStory ==
    \/ \E t \in Threads, proposal \in StoryProposals : ProducerValidates(t, proposal)
    \/ \E t \in Threads : ProducerCommits(t)

SpecStory == InitStory /\ [][NextStory]_vars

\* ------------------------------------------------------- the three validations
\* validate_changes, validate_story_consistency and validate_consistency
\* called on a store that takes updates and subscriptions and beside a hub
\* that registers agents and takes messages. vc, vd and rd hold the last
\* validation made since the last update, and its result.

\* str(n) of an int.
IntText(n) == IF n < 0 THEN "-" \o ClockText(0 - n) ELSE ClockText(n)

\* for field in required_fields: if field not in self._context_data: ...
MissingFields(doc) ==
    (IF "player_name" \in DOMAIN doc THEN << >>
     ELSE <<"Missing required field: player_name">>)
    \o (IF "current_location" \in DOMAIN doc THEN << >>
        ELSE <<"Missing required field: current_location">>)
    \o (IF "game_state" \in DOMAIN doc THEN << >>
        ELSE <<"Missing required field: game_state">>)

\* if health < 0 or health > 100 / if progress < 0 or progress > 100
OutOfRange(doc, key, text) ==
    IF key \in DOMAIN doc /\ (doc[key] < 0 \/ doc[key] > 100)
    THEN <<text \o IntText(doc[key])>>
    ELSE << >>

\* validate_consistency(), the store holding doc at version n.
ValidateConsistency(doc, n) ==
    LET issues == MissingFields(doc)
                    \o OutOfRange(doc, "player_health", "Invalid player health: ")
                    \o OutOfRange(doc, "story_progress", "Invalid story progress: ")
    IN  [is_consistent |-> Len(issues) = 0, issues |-> issues, version |-> n]

\* A document that validate_consistency finds consistent.
CompleteStory ==
    Merge([k \in {"player_name", "current_location", "game_state"} |->
              CASE k = "player_name" -> "Hero"
                [] k = "current_location" -> "Forest"
                [] OTHER -> "playing"],
          [k \in {"player_health", "story_progress"} |->
              IF k = "player_health" THEN 50 ELSE 10])

\* The updates the store takes.
StoryUpdates ==
    {CompleteStory, [k \in {"player_health"} |-> 120]}

\* The changes proposed to validate_changes and validate_story_consistency.
CheckedProposals ==
    {[k \in {"player_health"} |-> 101], [k \in {"player_health"} |-> 60],
     [k \in {"story_progress"} |-> 5]}

\* context_db.update_context(updates, "A") from call to return.
StoryUpdate(updates) ==
    /\ CanAcquire("t1")
    /\ current_version < MaxVersion
    /\ UpdateContext(updates, "A")
    /\ vc' = NoRuleCheck
    /\ vd' = NoValidation
    /\ rd' = NoRead
    /\ UNCHANGED <<subscribers, lockOwner, lockCount, stack, diffVars, ck, hubVars,
                   viewVars, convVars, rc, breaker, producers, hubLock, hthreads>>

\* manager.validate_changes(proposal)
ValidateChangesOnStore(proposal) ==
    LET result == ValidateChanges(context_data, proposal)
    IN  /\ CanAcquire("t1")
        /\ vc' = [current |-> context_data, proposed |-> proposal,
                  is_valid |-> result.is_valid, violations |-> result.violations,
                  done |-> TRUE]
        /\ context_data' = result.store
        /\ vd' = NoValidation
        /\ rd' = NoRead
        /\ UNCHANGED <<current_version, versions, change_log, subscribers,
                       lockOwner, lockCount, stack, done, diffVars, ck, hubVars,
                       viewVars, convVars, rc, breaker, producers, hubLock,
                       hthreads>>

\* hub.validate_story_consistency(proposal, "A")
ValidateStoryOnStore(proposal) ==
    LET result == ValidateStoryConsistency(context_data, proposal)
    IN  /\ CanAcquire("t1")
        /\ vd' = [current |-> context_data, proposed |-> proposal,
                  is_valid |-> result.is_valid, conflicts |-> result.conflicts,
                  warnings |-> result.warnings, done |-> TRUE]
        /\ vc' = NoRuleCheck
        /\ rd' = NoRead
        /\ UNCHANGED <<storeVars, subscribers, lockOwner, lockCount, stack, done,
                       diffVars, ck, hubVars, viewVars, convVars, rc, breaker,
                       producers, hubLock, hthreads>>

\* context_db.validate_consistency(): rd.list holds the issues, rd.n the
\* version reported.
ValidateStoreConsistency ==
    LET result == ValidateConsistency(context_data, current_version)
    IN  /\ CanAcquire("t1")
        /\ rd' = [NoRead EXCEPT !.op = "validate_consistency",
                                !.n = result.version, !.list = result.issues]
        /\ vc' = NoRuleCheck
        /\ vd' = NoValidation
        /\ UNCHANGED <<storeVars, subscribers, lockOwner, lockCount, stack, done,
                       diffVars, ck, hubVars, viewVars, convVars, rc, breaker,
                       producers, hubLock, hthreads>>

NextReadOnly ==
    \/ \E updates \in StoryUpdates : StoryUpdate(updates)
    \/ Subscribe("t1", "B", CbOk)
    \/ RegisterAgent("A", "")
    \/ SendMessage([sender |-> "A", recipient |-> "A",
                    message_type |-> "story_update", priority |-> Priority.LOW])
    \/ \E proposal \in CheckedProposals : ValidateChangesOnStore(proposal)
    \/ \E proposal \in CheckedProposals : ValidateStoryOnStore(proposal)
    \/ ValidateStoreConsistency

SpecReadOnly == Init /\ [][NextReadOnly]_vars

\* ------------------------------------------------------------ the two locks
\* Threads that call update_context on the store and send_message on the hub,
\* with a subscriber "S" whose callback sends a broadcast message on the hub
\* and an agent "H" whose handler updates the store under the name "S".
\* update_context holds the store's lock while it notifies, send_message the
\* hub's lock while it processes. hthreads[t] holds where thread t is: "idle",
\* "notify" (in _notify_subscribers, todo callbacks to go) or "process" (in
\* _process_message of the message numbered message, todo handlers to go).

\* Sends a message of "S" to everybody on the hub.
CbSend == [kind |-> "send", as |-> "S"]

Idle == [pc |-> "idle", todo |-> 0, message |-> 0]

\* The updates the threads pass, and the one the handler of "H" passes.
ThreadUpdates == {[k \in {"a"} |-> "x"], [k \in {"a"} |-> "y"]}

HandlerUpdate == [k \in {"b"} |-> "x"]

\* The messages the threads send.
ThreadMessages ==
    {[sender |-> "A", recipient |-> "H"], [sender |-> "A", recipient |-> "broadcast"]}

\* threading.RLock.acquire on the hub's lock does not block.
CanAcquireHub(t) == hubLock.owner = NoThread \/ hubLock.owner = t

AcquireHub(t) == [owner |-> t, count |-> hubLock.count + 1]

ReleaseHub(t) ==
    [owner |-> IF hubLock.count = 1 THEN NoThread ELSE hubLock.owner,
     count |-> hubLock.count - 1]

\* send_message(message) up to the call of _process_message: the queue, the
\* agent records and the clock when the hub holds status and queue.
Accepted(m) ==
    /\ hubCalls' = [hubCalls EXCEPT !.send = @ + 1]
    /\ IF Deliverable(agent_status, m)
       THEN /\ message_queue' = Append(message_queue, m)
            /\ agent_status' =
                  [agent_status EXCEPT ![m.sender].messages_sent = @ + 1,
                                       ![m.sender].last_active = hubNow + 1]
            /\ hubNow' = hubNow + 1
            /\ UNCHANGED rejected
       ELSE /\ rejected' = rejected \cup {m.id}
            /\ UNCHANGED <<message_queue, agent_status, hubNow>>

\* AgentMessage(sender, recipient, ...), numbered by the order of the calls.
NewMessage(sender, recipient) ==
    [NoMessage EXCEPT !.id = hubCalls.send + 1, !.sender = sender,
                      !.recipient = recipient, !.message_type = "story_update",
                      !.priority = Priority.MEDIUM]

InitLocks ==
    /\ InitStore
    /\ InitNoDiff
    /\ InitNoRead
    /\ InitNoChecksum
    /\ InitHub
    /\ InitViews
    /\ InitConv
    /\ InitNoValidation
    /\ vc = NoRuleCheck
    /\ rc = NoResolution
    /\ breaker = NoBreaker
    /\ producers = << >>
    /\ hubLock = NewLock
    /\ hthreads = [t \in Threads |-> Idle]

\* No thread has called the store or the hub yet.
NotStarted == current_version = 0 /\ hubCalls.send = 0

notLockVars ==
    <<diffVars, rd, ck, viewVars, convVars, vd, vc, rc, breaker, producers, stack>>

\* Thread t calls update_context(updates, "A"): it takes the store's lock,
\* commits, and starts to notify.
StartUpdate(t, updates) ==
    /\ hthreads[t].pc = "idle"
    /\ current_version < MaxVersion
    /\ CanAcquire(t)
    /\ Acquire(t)
    /\ UpdateContext(updates, "A")
    /\ hthreads' = [hthreads EXCEPT ![t] =
                       [pc |-> "notify", todo |-> Len(Notified(subscribers, "A")),
                        message |-> 0]]
    /\ UNCHANGED <<subscribers, hubVars, hubLock, notLockVars>>

\* The next callback of "S" runs in thread t inside update_context: it calls
\* send_message, which takes the hub's lock, queues the broadcast and
\* returns.
CallbackSends(t) ==
    /\ hthreads[t].pc = "notify"
    /\ hthreads[t].todo > 0
    /\ CanAcquireHub(t)
    /\ Accepted(NewMessage("S", "broadcast"))
    /\ hthreads' = [hthreads EXCEPT ![t].todo = @ - 1]
    /\ UNCHANGED <<storeVars, subscribers, lockOwner, lockCount, done,
                   message_handlers, hubLast, returned, invoked, hubLock,
                   notLockVars>>

\* Every callback has run: update_context releases the store's lock and
\* returns.
UpdateReturns(t) ==
    /\ hthreads[t].pc = "notify"
    /\ hthreads[t].todo = 0
    /\ Release(t)
    /\ hthreads' = [hthreads EXCEPT ![t] = Idle]
    /\ UNCHANGED <<storeVars, subscribers, done, hubVars, hubLock, notLockVars>>

\* Thread t calls send_message(m): it takes the hub's lock, validates and
\* queues the message and starts to process it.
StartSend(t, c) ==
    LET m == NewMessage(c.sender, c.recipient)
    IN  /\ hthreads[t].pc = "idle"
        /\ hubCalls.send < MaxSends
        /\ CanAcquireHub(t)
        /\ hubLock' = AcquireHub(t)
        /\ Accepted(m)
        /\ hthreads' =
              [hthreads EXCEPT ![t] =
                  [pc |-> "process",
                   todo |-> IF Deliverable(agent_status, m) /\ m.recipient # "broadcast"
                            THEN Len(HandlersOf(message_handlers, m.recipient))
                            ELSE 0,
                   message |-> m.id]]
        /\ UNCHANGED <<storeVars, subscribers, lockOwner, lockCount, done,
                       message_handlers, hubLast, returned, invoked, notLockVars>>

\* The next handler of "H" runs in thread t inside send_message: it calls
\* update_context(HandlerUpdate, "S"), which takes the store's lock, commits,
\* notifies nobody but "S" itself, and returns.
HandlerUpdates(t) ==
    /\ hthreads[t].pc = "process"
    /\ hthreads[t].todo > 0
    /\ CanAcquire(t)
    /\ UpdateContext(HandlerUpdate, "S")
    /\ invoked' = Append(invoked, [id |-> hthreads[t].message,
                                   idx |-> Len(HandlersOf(message_handlers, "H"))
                                              - hthreads[t].todo + 1,
                                   kind |-> "update"])
    /\ hthreads' = [hthreads EXCEPT ![t].todo = @ - 1]
    /\ UNCHANGED <<subscribers, lockOwner, lockCount, agent_status,
                   message_handlers, message_queue, hubNow, hubCalls, hubLast,
                   returned, rejected, hubLock, notLockVars>>

\* Every handler has run: send_message releases the hub's lock and returns.
SendReturns(t) ==
    /\ hthreads[t].pc = "process"
    /\ hthreads[t].todo = 0
    /\ hubLock' = ReleaseHub(t)
    /\ hthreads' = [hthreads EXCEPT ![t] = Idle]
    /\ UNCHANGED <<storeVars, subscribers, lockOwner, lockCount, done, hubVars,
                   notLockVars>>

\* Before the threads start: subscribe_to_changes("S", callback).
SubscribeSender ==
    /\ NotStarted
    /\ \A t \in Threads : hthreads[t] = Idle
    /\ Subscribe("t1", "S", CbSend)

\* Before the threads start: register_agent(name, handler).
RegisterFirst(name, handler) ==
    /\ NotStarted
    /\ \A t \in Threads : hthreads[t] = Idle
    /\ RegisterAgent(name, handler)

NextLocks ==
    \/ SubscribeSender
    \/ \E r \in {<<"A", "">>, <<"H", "update">>, <<"S", "">>} :
          RegisterFirst(r[1], r[2])
    \/ \E t \in Threads :
          \/ \E updates \in ThreadUpdates : StartUpdate(t, updates)
          \/ CallbackSends(t)
          \/ UpdateReturns(t)
          \/ \E c \in ThreadMessages : StartSend(t, c)
          \/ HandlerUpdates(t)
          \/ SendReturns(t)

SpecLocks == InitLocks /\ [][NextLocks]_vars

\* ------------------------------------------------------- threads on the hub
\* Threads that call register_agent, send_message and get_messages_for_agent
\* on one hub, each call a sequence of steps inside "with self._lock".
\* hthreads[t] holds the call thread t is in, the statement it is at, the
\* message or agent passed, and of get_messages_for_agent the messages it
\* collected.

OutsideHub == [pc |-> "idle", message |-> NoMessage, agent |-> "", ids |-> << >>]

\* The agents registered and polled, and the messages sent.
HubAgents == {"A", "B"}

HubMessages ==
    {[sender |-> "A", recipient |-> "B"], [sender |-> "B", recipient |-> "B"],
     [sender |-> "A", recipient |-> "broadcast"], [sender |-> "A", recipient |-> "C"]}

InitHubThreads ==
    /\ InitStore
    /\ InitNoDiff
    /\ InitNoRead
    /\ InitNoChecksum
    /\ InitHub
    /\ InitViews
    /\ InitConv
    /\ InitNoValidation
    /\ vc = NoRuleCheck
    /\ rc = NoResolution
    /\ breaker = NoBreaker
    /\ producers = << >>
    /\ hubLock = NewLock
    /\ hthreads = [t \in Threads |-> OutsideHub]

notHubThreadVars ==
    <<storeVars, subscribers, lockOwner, lockCount, stack, done, diffVars, rd, ck,
      viewVars, convVars, vd, vc, rc, breaker, producers, message_handlers,
      hubLast, invoked>>

\* Thread t calls one of the three operations and enters its with-block.
Enter(t, pc, message, agent) ==
    /\ hthreads[t].pc = "idle"
    /\ CanAcquireHub(t)
    /\ hubLock' = AcquireHub(t)
    /\ hthreads' = [hthreads EXCEPT ![t] =
                       [pc |-> pc, message |-> message, agent |-> agent,
                        ids |-> << >>]]

\* Thread t leaves the with-block and returns.
Leave(t) ==
    /\ hubLock' = ReleaseHub(t)
    /\ hthreads' = [hthreads EXCEPT ![t] = OutsideHub]

\* register_agent(name) is called.
EnterRegister(t, name) ==
    /\ hubCalls.register < MaxRegs
    /\ Enter(t, "register", NoMessage, name)
    /\ hubCalls' = [hubCalls EXCEPT !.register = @ + 1, !.names = @ \cup {name}]
    /\ UNCHANGED <<agent_status, message_queue, hubNow, returned, rejected,
                   notHubThreadVars>>

\* self._agent_status[agent_name] = {...}
StoreRecord(t) ==
    /\ hthreads[t].pc = "register"
    /\ agent_status' = Put(agent_status, hthreads[t].agent, NewAgentRecord(hubNow + 1))
    /\ hubNow' = hubNow + 1
    /\ Leave(t)
    /\ UNCHANGED <<message_queue, hubCalls, returned, rejected, notHubThreadVars>>

\* send_message(message) is called.
EnterSend(t, c) ==
    /\ hubCalls.send < MaxSends
    /\ Enter(t, "validate", NewMessage(c.sender, c.recipient), "")
    /\ hubCalls' = [hubCalls EXCEPT !.send = @ + 1]
    /\ UNCHANGED <<agent_status, message_queue, hubNow, returned, rejected,
                   notHubThreadVars>>

\* The two validations: return False, or go on.
ValidateMessage(t) ==
    /\ hthreads[t].pc = "validate"
    /\ IF Deliverable(agent_status, hthreads[t].message)
       THEN /\ hthreads' = [hthreads EXCEPT ![t].pc = "append"]
            /\ UNCHANGED <<hubLock, rejected>>
       ELSE /\ rejected' = rejected \cup {hthreads[t].message.id}
            /\ Leave(t)
    /\ UNCHANGED <<agent_status, message_queue, hubNow, hubCalls, returned,
                   notHubThreadVars>>

\* self._message_queue.append(message)
AppendMessage(t) ==
    /\ hthreads[t].pc = "append"
    /\ message_queue' = Append(message_queue, hthreads[t].message)
    /\ hthreads' = [hthreads EXCEPT ![t].pc = "count"]
    /\ UNCHANGED <<agent_status, hubNow, hubCalls, returned, rejected, hubLock,
                   notHubThreadVars>>

\* self._agent_status[message.sender]["messages_sent"] += 1, last_active, and
\* _process_message of a recipient without handlers; return True.
CountSent(t) ==
    LET m == hthreads[t].message
    IN  /\ hthreads[t].pc = "count"
        /\ agent_status' = [agent_status EXCEPT ![m.sender].messages_sent = @ + 1,
                                                ![m.sender].last_active = hubNow + 1]
        /\ hubNow' = hubNow + 1
        /\ Leave(t)
        /\ UNCHANGED <<message_queue, hubCalls, returned, rejected,
                       notHubThreadVars>>

\* get_messages_for_agent(agent) is called.
EnterPoll(t, agent) ==
    /\ Enter(t, "collect", NoMessage, agent)
    /\ UNCHANGED <<agent_status, message_queue, hubNow, hubCalls, returned,
                   rejected, notHubThreadVars>>

\* for message in self._message_queue: ... messages.append(message)
CollectMessages(t) ==
    LET messages == Collect(message_queue, hthreads[t].agent, NoTypes)
    IN  /\ hthreads[t].pc = "collect"
        /\ hthreads' = [hthreads EXCEPT
                           ![t].pc = "mark",
                           ![t].ids = [i \in DOMAIN messages |-> messages[i].id]]
        /\ UNCHANGED <<agent_status, message_queue, hubNow, hubCalls, returned,
                       rejected, hubLock, notHubThreadVars>>

\* for message in messages: message.processed = True; ... += 1; return
\* messages.
MarkMessages(t) ==
    LET agent == hthreads[t].agent
        ids == hthreads[t].ids
        collected(m) == \E i \in DOMAIN ids : ids[i] = m.id
        mine == {i \in DOMAIN message_queue :
                    /\ collected(message_queue[i])
                    /\ message_queue[i].recipient # "broadcast"}
    IN  /\ hthreads[t].pc = "mark"
        /\ message_queue' =
              [i \in DOMAIN message_queue |->
                  IF collected(message_queue[i])
                  THEN [message_queue[i] EXCEPT !.processed = TRUE]
                  ELSE message_queue[i]]
        /\ agent_status' =
              IF mine # {}
              THEN [agent_status EXCEPT
                       ![agent].messages_received = @ + Cardinality(mine)]
              ELSE agent_status
        /\ returned' = returned \o
              [i \in DOMAIN ids |->
                  [id |-> ids[i], to |-> agent,
                   recipient |-> message_queue[CHOOSE k \in DOMAIN message_queue :
                                     message_queue[k].id = ids[i]].recipient]]
        /\ Leave(t)
        /\ UNCHANGED <<hubNow, hubCalls, rejected, notHubThreadVars>>

NextHubThreads ==
    \E t \in Threads :
        \/ \E name \in HubAgents : EnterRegister(t, name)
        \/ StoreRecord(t)
        \/ \E c \in HubMessages : EnterSend(t, c)
        \/ ValidateMessage(t)
        \/ AppendMessage(t)
        \/ CountSent(t)
        \/ \E agent \in HubAgents : EnterPoll(t, agent)
        \/ CollectMessages(t)
        \/ MarkMessages(t)

SpecHubThreads == InitHubThreads /\ [][NextHubThreads]_vars

\* ------------------------------------------------------- views and identity
\* What a caller can reach from the object a call handed it. The objects of
\* the store and the hub live in a heap: an object maps its keys, indices or
\* attribute names to values, and a value is immutable (val) or a reference to
\* another object (ref). A copy made by dict.copy(), a dict comprehension or a
\* list slice is a new object holding the same references.

\* The names of the objects allocated after construction, in order.
CellPool == <<"o1", "o2", "o3", "o4", "o5", "o6">>

Val(x) == [kind |-> "val", v |-> x]

Ref(c) == [kind |-> "ref", v |-> c]

NumStr(n) == CASE n = 0 -> "0" [] n = 1 -> "1" [] n = 2 -> "2" [] OTHER -> "3"

\* x += 1 on a counter.
Inc(x) == CASE x.v = "0" -> Val("1") [] x.v = "1" -> Val("2") [] OTHER -> Val("3")

Allocated(h) == Cardinality(DOMAIN h) - Cardinality(DOMAIN NewHeap)

\* The k-th object allocated next.
Fresh(h, k) == CellPool[Allocated(h) + k]

Room(h, k) == Allocated(h) + k <= Len(CellPool)

\* list.append(value)
ListAppend(list, value) == Put(list, NumStr(Cardinality(DOMAIN list)), value)

\* The objects a list refers to.
Elements(h, list) == {h[list][i].v : i \in DOMAIN h[list]}

RECURSIVE Reachable(_, _)
\* The objects reachable from object c, c included.
Reachable(h, c) ==
    {c} \cup UNION {Reachable(h, h[c][f].v) :
                       f \in {g \in DOMAIN h[c] : h[c][g].kind = "ref"}}

RECURSIVE Flat(_, _, _)
\* The content of a value, nested content included, as a set of paths.
Flat(h, value, path) ==
    IF value.kind = "val" THEN {<<path, value.v>>}
    ELSE {<<path, "object">>} \cup
         UNION {Flat(h, h[value.v][f], Append(path, f)) : f \in DOMAIN h[value.v]}

notViewVars ==
    <<storeVars, subscribers, lockOwner, lockCount, stack, done, diffVars, rd, ck,
      hubVars, convVars, vd, moreVars>>

\* The caller's call op handed it the object c.
Handed(op, c) ==
    /\ held' = c
    /\ viewLast' = [op |-> op, from |-> op, cell |-> c, field |-> "",
                    mutations |-> viewLast.mutations]
    /\ UNCHANGED notViewVars

\* update_context(updates, "A"): the updates hold a str under "a", or a new
\* list under "n". The document takes the values of the updates (line 123),
\* the version a copy of the document (line 130).
HeapUpdateContext(nested) ==
    LET list == Fresh(heap, 1)
        snapshot == Fresh(heap, IF nested THEN 2 ELSE 1)
        version == Fresh(heap, IF nested THEN 3 ELSE 2)
        updates == IF nested THEN [k \in {"n"} |-> Ref(list)]
                   ELSE [k \in {"a"} |-> Val("x")]
        doc == Merge(heap["ctx"], updates)
        n == Cardinality(DOMAIN heap["versions"]) + 1
        h1 == IF nested THEN Put(heap, list, [i \in {"0"} |-> Val("x")]) ELSE heap
        h2 == Put(Put(h1, "ctx", doc), snapshot, doc)
        h3 == Put(h2, version,
                  [f \in {"version", "context_data", "changed_by"} |->
                      CASE f = "version" -> Val(NumStr(n))
                        [] f = "context_data" -> Ref(snapshot)
                        [] OTHER -> Val("A")])
    IN  /\ n <= MaxVersion
        /\ Room(heap, IF nested THEN 3 ELSE 2)
        /\ heap' = Put(h3, "versions", ListAppend(heap["versions"], Ref(version)))
        /\ held' = ""
        /\ viewLast' = [viewLast EXCEPT !.op = "update_context", !.from = "",
                                        !.cell = "", !.field = ""]
        /\ UNCHANGED notViewVars

\* register_agent("A")
HeapRegisterAgent ==
    LET record == Fresh(heap, 1)
    IN  /\ Room(heap, 1)
        /\ "A" \notin DOMAIN heap["status"]
        /\ heap' = Put(Put(heap, record,
                           [f \in {"status", "messages_sent", "messages_received"} |->
                               IF f = "status" THEN Val("active") ELSE Val("0")]),
                       "status", Put(heap["status"], "A", Ref(record)))
        /\ held' = ""
        /\ viewLast' = [viewLast EXCEPT !.op = "register_agent", !.from = "",
                                        !.cell = "", !.field = ""]
        /\ UNCHANGED notViewVars

\* message = AgentMessage(sender="A", recipient="broadcast");
\* send_message(message): the queue takes the caller's object (line 282).
HeapSendMessage ==
    LET message == Fresh(heap, 1)
        record == heap["status"]["A"].v
        h1 == Put(heap, message,
                  [f \in {"sender", "recipient", "processed"} |->
                      CASE f = "sender" -> Val("A")
                        [] f = "recipient" -> Val("broadcast")
                        [] OTHER -> Val("False")])
        h2 == Put(h1, "queue", ListAppend(heap["queue"], Ref(message)))
    IN  /\ Room(heap, 1)
        /\ "A" \in DOMAIN heap["status"]
        /\ Cardinality(DOMAIN heap["queue"]) < MaxSends
        /\ heap' = [h2 EXCEPT ![record] =
                       [@ EXCEPT !["messages_sent"] = Inc(@)]]
        /\ Handed("send_message", message)

\* get_context(keys): a dict comprehension or self._context_data.copy()
HeapGetContext(arg) ==
    /\ Room(heap, 1)
    /\ heap' = Put(heap, Fresh(heap, 1), GetContext(heap["ctx"], arg))
    /\ Handed("get_context", Fresh(heap, 1))

\* get_version(n): return version, the object of the list
HeapGetVersion(n) ==
    /\ \E c \in Elements(heap, "versions") :
          /\ heap[c]["version"] = Val(NumStr(n))
          /\ Handed("get_version", c)
    /\ UNCHANGED heap

\* get_version_history(): self._versions[-limit:], a new list of the same
\* objects
HeapGetVersionHistory ==
    /\ Room(heap, 1)
    /\ heap["versions"] # << >>
    /\ heap' = Put(heap, Fresh(heap, 1), heap["versions"])
    /\ Handed("get_version_history", Fresh(heap, 1))

\* get_agent_statistics(): a new dict whose agent_details is
\* self._agent_status.copy()
HeapGetAgentStatistics ==
    LET details == Fresh(heap, 1)
        statistics == Fresh(heap, 2)
    IN  /\ Room(heap, 2)
        /\ heap' = Put(Put(heap, details, heap["status"]), statistics,
                       [f \in {"total_agents", "total_messages", "agent_details"} |->
                           CASE f = "total_agents" ->
                                  Val(NumStr(Cardinality(DOMAIN heap["status"])))
                             [] f = "total_messages" ->
                                  Val(NumStr(Cardinality(DOMAIN heap["queue"])))
                             [] OTHER -> Ref(details)])
        /\ Handed("get_agent_statistics", statistics)

\* The caller assigns to the key, index or attribute f of the object it was
\* handed or of an object nested in it.
Mutate(c, f) ==
    /\ held # ""
    /\ viewLast.mutations < MaxMutations
    /\ c \in DOMAIN heap
    /\ c \in Reachable(heap, held)
    /\ f \in DOMAIN heap[c] \cup {"zz"}
    /\ heap' = [heap EXCEPT ![c] = Put(@, f, Val("mutated"))]
    /\ viewLast' = [viewLast EXCEPT !.op = "mutate", !.cell = c, !.field = f,
                                    !.mutations = @ + 1]
    /\ UNCHANGED <<held, notViewVars>>

ViewKeys == {NoKeys, KeyList(<<"n">>)}

HeapCells == DOMAIN NewHeap \cup {CellPool[i] : i \in DOMAIN CellPool}

MutatedFields ==
    {"a", "n", "0", "zz", "version", "context_data", "processed", "A",
     "messages_sent", "agent_details"}

NextViews ==
    \/ \E nested \in BOOLEAN : HeapUpdateContext(nested)
    \/ HeapRegisterAgent
    \/ HeapSendMessage
    \/ \E arg \in ViewKeys : HeapGetContext(arg)
    \/ \E n \in 1 .. MaxVersion : HeapGetVersion(n)
    \/ HeapGetVersionHistory
    \/ HeapGetAgentStatistics
    \/ \E c \in HeapCells : \E f \in MutatedFields : Mutate(c, f)

SpecViews == Init /\ [][NextViews]_vars

\* ================================================================== claims

\* Every activation of update_context that is still running.
Running == UNION {{stack[t][n] : n \in DOMAIN stack[t]} : t \in Threads}

\* The updates of the calls, finished or running, that appended version k.
UpdatesOfVersion(k) ==
    {done[i].updates : i \in {x \in DOMAIN done : done[x].mine = k}}
        \cup {f.updates : f \in {g \in Running : g.mine = k}}

\* The number of calls, finished or running, that appended version k.
CallsOfVersion(k) ==
    Cardinality({x \in DOMAIN done : done[x].mine = k})
        + Cardinality(UNION {{<<t, n>> : n \in {m \in DOMAIN stack[t] :
                                                  stack[t][m].mine = k}} :
                             t \in Threads})

\* No thread is inside update_context and no call has raised.
AllReturned ==
    /\ \A t \in Threads : stack[t] = << >>
    /\ \A i \in DOMAIN done : done[i].raised = "no"

\* C1: with several threads calling update_context, every caller gets a
\* distinct version number, the stored versions are numbered 1, 2, ... with
\* none skipped or duplicated, and the document of version k is the document
\* of version k-1 (the empty document for k = 1) overridden with the updates of
\* exactly one call.
C1_ConcurrentUpdatesSerialize ==
    /\ \A i, j \in DOMAIN done :
          (i < j /\ done[i].raised = "no" /\ done[j].raised = "no")
              => done[i].ret # done[j].ret
    /\ \A k \in DOMAIN versions :
          /\ versions[k].version = k
          /\ CallsOfVersion(k) = 1
          /\ \A u \in UpdatesOfVersion(k) :
                versions[k].context_data =
                    Merge(IF k = 1 THEN EmptyDoc ELSE versions[k - 1].context_data, u)

\* C2: after N update_context calls that all returned, the version list holds
\* exactly N versions numbered 1..N in increasing order, and
\* get_version_history(N) returns exactly that list.
C2_VersionsGapless ==
    AllReturned =>
        /\ Len(versions) = Len(done)
        /\ \A k \in DOMAIN versions : versions[k].version = k
        /\ GetVersionHistory(versions, Len(done)) = versions

\* C2 witness: two calls or more have returned, none raised, nobody is in the store.
C2_Witness == AllReturned /\ Len(done) >= 2 /\ Len(versions) >= 2

\* C3: an update_context call that fails in the checksum serialization leaves
\* the document, the version counter, the version list and the change log as
\* they were before the call.
C3_FailedUpdateChangesNothing ==
    \A i \in DOMAIN done :
        done[i].raised = "TypeError" => done[i].post = done[i].pre

\* C4: every update_context call that returns, returns the number of the
\* version that this call appended.
C4_ReturnsOwnVersion ==
    \A i \in DOMAIN done :
        done[i].raised = "no" => done[i].ret = done[i].mine

\* No activation is between appending its version and appending its
\* change-log entry (a point inside the lock that no caller can observe).
NoCommitInProgress == \A f \in Running : f.pc # "log"

\* The document obtained by applying a recorded diff to doc: removed keys
\* are dropped, added keys set, modified keys set to their new value.
ApplyDiff(doc, changes) ==
    [k \in ((DOMAIN doc) \ (DOMAIN changes.removed))
              \cup (DOMAIN changes.added) \cup (DOMAIN changes.modified) |->
        IF k \in DOMAIN changes.added THEN changes.added[k]
        ELSE IF k \in DOMAIN changes.modified THEN changes.modified[k].new
        ELSE doc[k]]

\* C5: the change log and the version list have the same length and the same
\* version numbers position by position, and whenever versions v and v+1 are
\* both stored (v = 0 being the empty initial document), applying the diff
\* of change-log entry v+1 to the document of v gives the document of v+1.
C5_ChangeLogMatchesVersions ==
    NoCommitInProgress =>
        /\ Len(change_log) = Len(versions)
        /\ \A k \in DOMAIN versions :
              /\ change_log[k].version = versions[k].version
              /\ versions[k].version = 1 =>
                    ApplyDiff(EmptyDoc, change_log[k].changes)
                        = versions[k].context_data
              /\ (k > 1 /\ versions[k].version = versions[k - 1].version + 1) =>
                    ApplyDiff(versions[k - 1].context_data, change_log[k].changes)
                        = versions[k].context_data

\* C5 witness: two consecutive versions are stored, the second one both adds
\* a key and modifies a key of the first.
C5_Witness ==
    /\ NoCommitInProgress
    /\ \E k \in DOMAIN versions :
          /\ k > 1
          /\ versions[k].version = versions[k - 1].version + 1
          /\ change_log[k].changes.modified # << >>

\* C6: _get_change_diff puts a key in added iff it is in new and not in old
\* (with its new value), in removed iff it is in old and not in new (with its
\* old value), in modified iff it is in both with different values (with the
\* old and the new value); the partitions are pairwise disjoint and a key
\* with equal values in both documents is in none.
C6_DiffPartitions ==
    dDone =>
        LET A == DOMAIN dOut.added
            M == DOMAIN dOut.modified
            R == DOMAIN dOut.removed
        IN  /\ \A k \in DiffKeys :
                  /\ k \in A <=> (k \in DOMAIN dNew /\ k \notin DOMAIN dOld)
                  /\ k \in R <=> (k \in DOMAIN dOld /\ k \notin DOMAIN dNew)
                  /\ k \in M <=> (/\ k \in DOMAIN dOld
                                   /\ k \in DOMAIN dNew
                                   /\ dOld[k] # dNew[k])
                  /\ (k \in DOMAIN dOld /\ k \in DOMAIN dNew /\ dOld[k] = dNew[k])
                        => k \notin A \cup M \cup R
            /\ \A k \in A : dOut.added[k] = dNew[k]
            /\ \A k \in R : dOut.removed[k] = dOld[k]
            /\ \A k \in M : dOut.modified[k] = [old |-> dOld[k], new |-> dNew[k]]
            /\ A \cap M = {} /\ A \cap R = {} /\ M \cap R = {}
            /\ A \cup M \cup R \subseteq DiffKeys

\* C6 witness: a diff was computed in which every partition is non-empty and
\* one key has the same value in both documents.
C6_Witness ==
    /\ dDone
    /\ dOut.added # << >>
    /\ dOut.modified # << >>
    /\ dOut.removed # << >>
    /\ \E k \in (DOMAIN dOld) \cap (DOMAIN dNew) : dOld[k] = dNew[k]

\* Every callback that was registered when the call r began, under a name
\* other than r.changed_by, was invoked for r.
AllNotified(r) ==
    \A s \in DOMAIN r.subs0 :
        r.subs0[s].name # r.changed_by =>
            \A c \in DOMAIN r.subs0[s].callbacks :
                \E e \in DOMAIN r.inv :
                    r.inv[e].sub = r.subs0[s].name /\ r.inv[e].idx = c

\* C7: when a callback raises during the notification of an update, that
\* update_context call still returns normally with its version committed and
\* every other registered callback of another name than changed_by is
\* invoked for it.
C7_RaisingSubscriberIsolated ==
    \A i \in DOMAIN done :
        (\E e \in DOMAIN done[i].inv : done[i].inv[e].kind = "raise") =>
            /\ done[i].raised = "no"
            /\ done[i].mine # 0
            /\ AllNotified(done[i])

\* The invocations made so far for the calls finished or running.
Invocations ==
    UNION ({{done[i].inv[e] : e \in DOMAIN done[i].inv} : i \in DOMAIN done}
           \cup {{f.inv[e] : e \in DOMAIN f.inv} : f \in Running})

\* C8: no callback registered under the name changed_by is invoked for that
\* update.
C8_NoSelfNotification == \A e \in Invocations : e.sub # e.changed_by

\* C8 witness: a call has returned whose changed_by had a callback registered
\* when it began, and whose notification invoked a callback of another name.
C8_Witness ==
    \E i \in DOMAIN done :
        /\ done[i].raised = "no"
        /\ SubIndex(done[i].subs0, done[i].changed_by) # 0
        /\ done[i].inv # << >>

\* C9: for every committed update, each callback registered before it under
\* another name than changed_by is invoked exactly once per registration,
\* with the raw updates and changed_by, and when it is invoked the newest
\* version and the newest change-log entry are those of this update.
C9_NotifiedOnceAfterCommit ==
    \A i \in DOMAIN done :
        done[i].mine # 0 =>
            /\ \A s \in DOMAIN done[i].subs0 :
                  done[i].subs0[s].name # done[i].changed_by =>
                      \A c \in DOMAIN done[i].subs0[s].callbacks :
                          Cardinality({e \in DOMAIN done[i].inv :
                              /\ done[i].inv[e].sub = done[i].subs0[s].name
                              /\ done[i].inv[e].idx = c}) = 1
            /\ \A e \in DOMAIN done[i].inv :
                  /\ done[i].inv[e].changes = done[i].updates
                  /\ done[i].inv[e].changed_by = done[i].changed_by
                  /\ done[i].inv[e].latest = done[i].mine
                  /\ done[i].inv[e].logged = done[i].mine

\* C10: a stored version is never changed, removed or moved: every step
\* leaves the versions stored so far in place, field by field.
C10_VersionsAppendOnly ==
    [][/\ Len(versions') >= Len(versions)
       /\ \A k \in DOMAIN versions : versions'[k] = versions[k]]_vars

\* C10 witness: a second version with another document has been appended
\* after the first.
C10_Witness ==
    /\ Len(versions) >= 2
    /\ versions[1].context_data # versions[2].context_data
    /\ versions[1].checksum # versions[2].checksum


\* A read has just been made by the step, and it was a call of op.
JustRead(op) == rd'.tick # rd.tick /\ rd'.op = op

\* The entries of doc whose key is in the set ks.
Restricted(doc, ks) == [k \in ks \cap DOMAIN doc |-> doc[k]]

\* C13: get_context never changes the store; called with a key list (an empty
\* list and lists naming absent keys included) it returns exactly the entries
\* of the document whose key is in the list, and called without a key list it
\* returns all entries.
C13_GetContextProjects ==
    [][JustRead("get_context") =>
          /\ storeVars' = storeVars
          /\ rd'.doc = IF rd'.keys.given
                       THEN Restricted(context_data, Named(rd'.keys))
                       ELSE context_data]_vars

\* The last m elements of the list vs.
MostRecent(vs, m) == SubSeq(vs, Len(vs) - m + 1, Len(vs))

\* C14: with N versions stored, get_version_history(limit) returns, for every
\* limit >= 0, exactly the min(limit, N) most recent versions, newest last.
C14_HistoryReturnsMostRecent ==
    [][JustRead("get_version_history") =>
          LET N == Len(versions)
              m == IF rd'.n < N THEN rd'.n ELSE N
          IN  rd'.list = MostRecent(versions, m)]_vars

\* C15: after N update_context calls that all returned, get_version(n) returns
\* the stored version whose version field is n for every n in 1..N, and for
\* every other n (0 and N+1 included) it returns None; it never changes the
\* store.
C15_GetVersionFindsByNumber ==
    [][JustRead("get_version") =>
          /\ storeVars' = storeVars
          /\ AllReturned =>
                IF rd'.n \in 1 .. Len(done)
                THEN /\ rd'.list = <<versions[rd'.n]>>
                     /\ versions[rd'.n].version = rd'.n
                ELSE rd'.list = << >>]_vars

\* C15 witness: after two calls that returned and none that raised, version 2
\* has been looked up and found, and so has the absent version 3.
C15_Witness ==
    /\ AllReturned
    /\ Len(done) = 2
    /\ rd.op = "get_version"
    /\ \/ rd.n = 2 /\ rd.list = <<versions[2]>>
       \/ rd.n = 3 /\ rd.list = << >>


\* The two documents have the same keys and, key by key, values of the same
\* type and the same value.
SameTypedContent(d1, d2) ==
    /\ ItemKeySet(d1) = ItemKeySet(d2)
    /\ \A k \in ItemKeySet(d1) : ItemValue(d1, k) = ItemValue(d2, k)

\* C12 as stated: two versions whose documents are equal have equal checksums,
\* whatever the insertion order of the keys, changed_by, summary and timestamp.
C12_EqualDocumentsEqualChecksums ==
    (ck.va # << >> /\ DictEqual(ck.a, ck.b)) =>
        ck.va[1].checksum = ck.vb[1].checksum

\* C12 amended: two versions whose documents have the same keys and, key by
\* key, values of the same type and value have equal checksums, whatever the
\* insertion order of the keys, changed_by, summary and timestamp.
C12_SameTypedContentEqualChecksums ==
    (ck.va # << >> /\ SameTypedContent(ck.a, ck.b)) =>
        ck.va[1].checksum = ck.vb[1].checksum

\* C12 witness: two versions of the same two-key content, the keys inserted
\* in opposite orders by different writers at different times.
C12_Witness ==
    /\ ck.va # << >>
    /\ Len(ck.a) = 2
    /\ SameTypedContent(ck.a, ck.b)
    /\ ck.a # ck.b
    /\ ck.byA # ck.byB
    /\ ck.atA # ck.atB
    /\ ck.va[1].checksum = ck.vb[1].checksum


\* The step is a call of the hub operation op.
JustCalled(op) ==
    hubLast'.op = op /\ (hubLast' # hubLast \/ hubCalls' # hubCalls)

\* What the hub holds.
hubState == <<agent_status, message_handlers, message_queue, hubNow>>

\* The kind of the message passes the filter of the call.
PassesFilter(m, filter) ==
    ~filter.given \/ m.message_type \in {filter.types[i] : i \in DOMAIN filter.types}

\* The ids a call returned.
Ids(call) == {call.ids[i] : i \in DOMAIN call.ids}

\* C16: send_message with a sender that is not registered, or with a
\* recipient that is neither registered nor "broadcast", returns False and
\* changes nothing (queue, counters, last-active times), invokes no handler,
\* and no later get_messages_for_agent call returns the message.
C16_RejectedSendChangesNothing ==
    [][/\ (/\ JustCalled("send")
           /\ \/ hubLast'.message.sender \notin DOMAIN agent_status
              \/ /\ hubLast'.message.recipient \notin DOMAIN agent_status
                 /\ hubLast'.message.recipient # "broadcast")
          => /\ ~hubLast'.ok
             /\ hubState' = hubState
             /\ invoked' = invoked
             /\ hubLast'.message.id \in rejected'
       /\ \A i \in DOMAIN returned' : returned'[i].id \notin rejected'
       /\ \A i \in DOMAIN message_queue' : message_queue'[i].id \notin rejected'
      ]_vars

\* C16 witness: a send_message was refused, and the get_messages_for_agent
\* call made after it returned a message, another one.
C16_Witness ==
    /\ rejected # {}
    /\ hubLast.op = "poll"
    /\ hubLast.ids # << >>
    /\ Ids(hubLast) \cap rejected = {}

\* C17: an accepted broadcast message is returned by every
\* get_messages_for_agent call of every registered agent whose filter it
\* passes, however often the agents call, and its processed flag is never set.
C17_BroadcastReturnedToEveryone ==
    [][/\ \A i \in DOMAIN message_queue' :
             message_queue'[i].recipient = "broadcast"
                 => ~message_queue'[i].processed
       /\ (JustCalled("poll") /\ hubLast'.agent \in DOMAIN agent_status)
             => \A i \in DOMAIN message_queue :
                   (/\ message_queue[i].recipient = "broadcast"
                    /\ PassesFilter(message_queue[i], hubLast'.types))
                       => message_queue[i].id \in Ids(hubLast')
      ]_vars

\* The queued message with the id.
Queued(id) ==
    message_queue[CHOOSE i \in DOMAIN message_queue : message_queue[i].id = id]

\* C18: a point-to-point message is returned by get_messages_for_agent only
\* to the agent named as its recipient and at most once: once returned it is
\* marked processed and no later call returns it again.
C18_PointToPointReturnedOnce ==
    \A i \in DOMAIN returned :
        Queued(returned[i].id).recipient # "broadcast" =>
            /\ returned[i].to = Queued(returned[i].id).recipient
            /\ Queued(returned[i].id).processed
            /\ \A j \in DOMAIN returned :
                  returned[j].id = returned[i].id => j = i

\* C18 witness: a point-to-point message was returned to its recipient, and
\* the recipient's next call, without a filter, returned nothing.
C18_Witness ==
    /\ \E i \in DOMAIN returned :
          /\ returned[i].recipient # "broadcast"
          /\ returned[i].to = hubLast.agent
    /\ hubLast.op = "poll"
    /\ ~hubLast.types.given
    /\ hubLast.ids = << >>

\* C19: an accepted point-to-point send_message invokes every handler
\* registered for the recipient before it returns, and an accepted broadcast
\* invokes none; a handler that raises does not stop the remaining handlers,
\* send_message still returns True, and the message stays in the queue
\* unprocessed: the recipient's next get_messages_for_agent returns it.
C19_HandlersAllInvoked ==
    [][/\ (/\ JustCalled("send")
           /\ hubLast'.message.sender \in DOMAIN agent_status
           /\ hubLast'.message.recipient \in DOMAIN agent_status)
          => LET m == hubLast'.message
                 hs == HandlersOf(message_handlers, m.recipient)
             IN  /\ hubLast'.ok
                 /\ invoked' = invoked \o
                       [i \in DOMAIN hs |-> [id |-> m.id, idx |-> i, kind |-> hs[i]]]
                 /\ message_queue' = Append(message_queue, m)
                 /\ ~m.processed
       /\ (JustCalled("send") /\ hubLast'.message.recipient = "broadcast")
          => invoked' = invoked
       /\ JustCalled("poll")
          => \A i \in DOMAIN message_queue :
                (/\ message_queue[i].recipient = hubLast'.agent
                 /\ ~message_queue[i].processed
                 /\ PassesFilter(message_queue[i], hubLast'.types))
                    => message_queue[i].id \in Ids(hubLast')
      ]_vars

\* C19 witness: a handler raised for a message, the next handler of the
\* recipient was invoked for it all the same, and the recipient then got the
\* message from get_messages_for_agent.
C19_Witness ==
    /\ \E i \in DOMAIN invoked :
          /\ invoked[i].kind = "raise"
          /\ i + 1 \in DOMAIN invoked
          /\ invoked[i + 1].id = invoked[i].id
          /\ invoked[i].id \in Ids(hubLast)
    /\ hubLast.op = "poll"

\* C20: after any sequence of register_agent, send_message and
\* get_messages_for_agent calls, messages_sent of every registered agent is
\* the number of queued messages it sent and its messages_received is the
\* number of processed point-to-point messages addressed to it; an agent
\* record, once created, is never removed.
C20_CountersMatchQueue ==
    [][/\ \A a \in DOMAIN agent_status' :
             /\ agent_status'[a].messages_sent =
                   Cardinality({i \in DOMAIN message_queue' :
                                   message_queue'[i].sender = a})
             /\ agent_status'[a].messages_received =
                   Cardinality({i \in DOMAIN message_queue' :
                                   /\ message_queue'[i].recipient = a
                                   /\ message_queue'[i].processed})
       /\ DOMAIN agent_status \subseteq DOMAIN agent_status'
      ]_vars


\* What the store and the hub hold: the document, the stored versions, the
\* agent records and the queued messages, nested values included.
StoreAndHubContent ==
    UNION {Flat(heap, Ref(root), <<root>>) :
              root \in {"ctx", "versions", "status", "queue"}}

\* C11: every view handed out is an independent copy: a caller that mutates
\* the result of get_context, get_version, get_version_history or
\* get_agent_statistics, nested values included, or an AgentMessage that
\* send_message accepted, never changes the store's document, a stored
\* version, an agent record or the queued message.
C11_ViewsAreCopies ==
    [][(viewLast'.op = "mutate" /\ viewLast'.mutations # viewLast.mutations)
          => StoreAndHubContent' = StoreAndHubContent]_vars


\* The place of the message with the id in the queue.
QueuePosition(id) == CHOOSE i \in DOMAIN message_queue : message_queue[i].id = id

\* C21: get_messages_for_agent returns its messages in the order in which
\* send_message accepted them, whatever their priorities: a CRITICAL message
\* sent after a LOW message to the same recipient is returned after it.
C21_ReturnedInQueueOrder ==
    [][JustCalled("poll") =>
          \A i, j \in DOMAIN hubLast'.ids :
              i < j => QueuePosition(hubLast'.ids[i]) < QueuePosition(hubLast'.ids[j])
      ]_vars

\* C21 witness: one call returned a LOW message and after it a CRITICAL
\* message that was sent later.
C21_Witness ==
    /\ hubLast.op = "poll"
    /\ Len(hubLast.ids) = 2
    /\ Queued(hubLast.ids[1]).priority = Priority.LOW
    /\ Queued(hubLast.ids[2]).priority = Priority.CRITICAL
    /\ QueuePosition(hubLast.ids[1]) < QueuePosition(hubLast.ids[2])

\* C22: get_messages_for_agent with a type filter returns only unprocessed
\* messages whose kind is in the filter, and leaves every pending message of
\* another kind unprocessed, so that a later call without the filter still
\* returns it.
C22_FilterReturnsOnlyItsKinds ==
    [][(JustCalled("poll") /\ hubLast'.types.given) =>
          /\ \A i \in DOMAIN message_queue :
                message_queue[i].id \in Ids(hubLast') =>
                    /\ ~message_queue[i].processed
                    /\ PassesFilter(message_queue[i], hubLast'.types)
          /\ \A i \in DOMAIN message_queue :
                (~message_queue[i].processed
                 /\ ~PassesFilter(message_queue[i], hubLast'.types))
                    => ~message_queue'[i].processed
      ]_vars

\* The step is a call of the conversation operation op.
ConvCalled(op) == convLast'.op = op /\ convCalls' # convCalls

\* The messages the step appended to the queue.
NewMessages ==
    SubSeq(message_queue', Len(message_queue) + 1, Len(message_queue'))

Members(names) == {names[i] : i \in DOMAIN names}

\* The messages of ms that notify agent of the conversation or collaboration id.
RequestsTo(ms, agent, id) ==
    {i \in DOMAIN ms :
        /\ ms[i].recipient = agent
        /\ ms[i].message_type = "collaboration_request"
        /\ id \in {ms[i].content.conversation_id, ms[i].content.collaboration_id}}

\* C23: start_conversation with the initiator and all participants
\* registered creates an active conversation under the returned id and
\* appends to the queue exactly one collaboration_request per participant
\* other than the initiator, carrying that id, and nothing else.
C23_StartConversationInvitesOthers ==
    [][(/\ ConvCalled("start")
        /\ Members(convLast'.names) \cup {convLast'.agent} \subseteq DOMAIN agent_status)
       => /\ convLast'.id \in DOMAIN active_conversations'
          /\ active_conversations'[convLast'.id].status = "active"
          /\ \A p \in Members(convLast'.names) \ {convLast'.agent} :
                Cardinality(RequestsTo(NewMessages, p, convLast'.id)) = 1
          /\ Len(NewMessages) =
                Cardinality(Members(convLast'.names) \ {convLast'.agent})]_vars

\* C24: add_to_conversation with an unknown conversation id, or with a sender
\* that is not a participant of the conversation, returns False and leaves
\* the conversations, the queue and the agents' records as they were.
C24_RejectedPostChangesNothing ==
    [][(/\ ConvCalled("add")
        /\ \/ convLast'.id \notin DOMAIN active_conversations
           \/ convLast'.agent \notin
                 Members(active_conversations[convLast'.id].participants))
       => /\ ~convLast'.ok
          /\ active_conversations' = active_conversations
          /\ message_queue' = message_queue
          /\ agent_status' = agent_status]_vars

\* add_to_conversation has turned down a sender that is no participant of
\* a conversation that exists.
C24_Witness ==
    /\ convLast.op = "add"
    /\ ~convLast.ok
    /\ convLast.id \in DOMAIN active_conversations
    /\ convLast.agent \notin Members(active_conversations[convLast.id].participants)

\* C25: whenever add_to_conversation returns True, the posted entry is the
\* last of the conversation's messages and, for every participant other than
\* the sender, exactly one collaboration_request to that participant with the
\* conversation id was appended to the queue.
C25_AcceptedPostFansOut ==
    [][(ConvCalled("add") /\ convLast'.ok)
       => LET conversation == active_conversations'[convLast'.id]
              last == conversation.messages[Len(conversation.messages)]
          IN  /\ conversation.messages # << >>
              /\ last.sender = convLast'.agent
              /\ last.content = "hello"
              /\ \A p \in Members(conversation.participants) \ {convLast'.agent} :
                    Cardinality(RequestsTo(NewMessages, p, convLast'.id)) = 1]_vars

C27_StatisticsCountCalls ==
    convLast.op = "statistics"
    => /\ convLast.stats.total_agents = Cardinality(hubCalls.names)
       /\ convLast.stats.total_messages = hubCalls.send - Cardinality(rejected)
       /\ convLast.stats.active_conversations = convCalls.start

Reported(conflict) == \E i \in DOMAIN vd.conflicts : vd.conflicts[i] = conflict

Proposes(key) == key \in DOMAIN vd.proposed

Stores(key) == key \in DOMAIN vd.current

\* C28 as stated: the excessive-increase conflict is reported exactly when
\* the store has a player_health and the proposed player_health exceeds it by
\* more than 50, and the negative-health conflict exactly when the proposed
\* player_health is below 0.
C28_HealthAgainstStoredValue ==
    vd.done =>
        /\ Reported("Excessive health increase without explanation")
              <=> (/\ Proposes("player_health")
                   /\ Stores("player_health")
                   /\ vd.proposed["player_health"] > vd.current["player_health"] + 50)
        /\ Reported("Player health cannot be negative")
              <=> (Proposes("player_health") /\ vd.proposed["player_health"] < 0)

\* C28: the excessive-increase conflict is reported exactly when the
\* proposed player_health exceeds the store's player_health, taken as 100
\* when the store has none, by more than 50; the negative-health conflict
\* exactly when the proposed player_health is below 0; with 50 in the store
\* a proposed 120 is not valid.
C28_HealthAgainstStoredOrDefault ==
    vd.done =>
        LET current_health == IF Stores("player_health")
                              THEN vd.current["player_health"] ELSE 100
        IN  /\ Reported("Excessive health increase without explanation")
                  <=> (/\ Proposes("player_health")
                       /\ vd.proposed["player_health"] > current_health + 50)
            /\ Reported("Player health cannot be negative")
                  <=> (Proposes("player_health") /\ vd.proposed["player_health"] < 0)
            /\ (/\ Proposes("player_health") /\ Stores("player_health")
                /\ vd.current["player_health"] = 50
                /\ vd.proposed["player_health"] = 120)
                  => ~vd.is_valid

\* The store has no player_health and a proposed 151 was reported as an
\* excessive increase.
C28_Witness ==
    /\ vd.done
    /\ ~Stores("player_health")
    /\ Proposes("player_health")
    /\ vd.proposed["player_health"] = 151
    /\ Reported("Excessive health increase without explanation")

\* C29: the backwards conflict is reported exactly when the proposed
\* story_progress is lower than the store's story_progress, taken as 0 when
\* the store has none.
C29_ProgressNeverBackwards ==
    vd.done =>
        LET current_progress == IF Stores("story_progress")
                                THEN vd.current["story_progress"] ELSE 0
        IN  Reported("Story progress cannot go backwards")
                <=> (/\ Proposes("story_progress")
                     /\ vd.proposed["story_progress"] < current_progress)

\* A proposal that keeps story_progress at the store's 40 was validated
\* without a progress conflict.
C29_Witness ==
    /\ vd.done
    /\ Stores("story_progress") /\ Proposes("story_progress")
    /\ vd.current["story_progress"] = 40
    /\ vd.proposed["story_progress"] = 40
    /\ ~Reported("Story progress cannot go backwards")

\* C30: is_valid is true iff the conflict list is empty, and a proposal of
\* nothing but the store's own current_location is valid with exactly one
\* warning and no conflict.
C30_ValidIffNoConflicts ==
    vd.done =>
        /\ vd.is_valid <=> (vd.conflicts = << >>)
        /\ (/\ DOMAIN vd.proposed = {"current_location"}
            /\ Stores("current_location")
            /\ vd.proposed["current_location"] = vd.current["current_location"])
              => /\ vd.is_valid
                 /\ Len(vd.warnings) = 1
                 /\ vd.conflicts = << >>

\* The store's location was proposed again and the result is valid with a
\* warning.
C30_Witness ==
    /\ vd.done
    /\ DOMAIN vd.proposed = {"current_location"}
    /\ Stores("current_location")
    /\ vd.proposed["current_location"] = vd.current["current_location"]
    /\ vd.is_valid
    /\ vd.warnings # << >>

\* C38: when a callback calls subscribe_to_changes while it is notified of
\* an update, that update_context call does not raise, and every callback
\* registered before the update under another name than changed_by is
\* invoked exactly once for it.
C38_SubscribingCallbackIsSafe ==
    \A i \in DOMAIN done :
        (\E e \in DOMAIN done[i].inv : done[i].inv[e].kind = "subscribe") =>
            /\ done[i].raised = "no"
            /\ \A s \in DOMAIN done[i].subs0 :
                  done[i].subs0[s].name # done[i].changed_by =>
                      \A c \in DOMAIN done[i].subs0[s].callbacks :
                          Cardinality({e \in DOMAIN done[i].inv :
                              /\ done[i].inv[e].sub = done[i].subs0[s].name
                              /\ done[i].inv[e].idx = c}) = 1

\* C39: no step of the store removes a key from the document, and the
\* removed partition of every change-log entry is empty.
C39_KeysOnlyGrow ==
    [][/\ DOMAIN context_data \subseteq DOMAIN context_data'
       /\ \A i \in DOMAIN change_log' : change_log'[i].changes.removed = << >>]_vars

\* Two updates were logged, the second of which changed the value of a key
\* the document already had.
C39_Witness ==
    /\ Len(change_log) >= 2
    /\ change_log[2].changes.modified # << >>
    /\ DOMAIN versions[1].context_data \subseteq DOMAIN context_data

\* C36: a get_context call without key list, made while other threads call
\* update_context, returns the document of some version that has been
\* appended, or the empty document the store began with.
C36_ReadsSeeCommittedDocuments ==
    [][(JustRead("get_context") /\ ~rd'.keys.given) =>
          \/ rd'.doc = EmptyDoc
          \/ \E k \in DOMAIN versions : versions[k].context_data = rd'.doc]_vars

\* The candidate validate_changes checks: the current document overridden by
\* the proposed changes.
Candidate ==
    [k \in DOMAIN vc.current \cup DOMAIN vc.proposed |->
        IF k \in DOMAIN vc.proposed THEN vc.proposed[k] ELSE vc.current[k]]

\* The default rule of that name fails on the candidate.
Fails(name) ==
    CASE name = "health_bounds" ->
            /\ "player_health" \in DOMAIN Candidate
            /\ Candidate["player_health"] < 0 \/ Candidate["player_health"] > 100
      [] name = "progress_monotonic" ->
            /\ "story_progress" \in DOMAIN Candidate
            /\ Candidate["story_progress"] < 0
      [] OTHER ->
            \/ "player_name" \notin DOMAIN Candidate
            \/ "current_location" \notin DOMAIN Candidate

\* C32: the violations list of validate_changes has one entry, with the
\* rule's name and message, per default rule that fails on the candidate, in
\* the order the rules are registered in, and no other entry; is_valid is
\* true iff the list is empty.
C32_EveryRuleEvaluated ==
    vc.done =>
        /\ \A i \in DOMAIN DefaultRules :
              Cardinality({j \in DOMAIN vc.violations :
                              vc.violations[j].rule = DefaultRules[i].name})
                 = IF Fails(DefaultRules[i].name) THEN 1 ELSE 0
        /\ \A j \in DOMAIN vc.violations :
              \E i \in DOMAIN DefaultRules :
                  /\ vc.violations[j].rule = DefaultRules[i].name
                  /\ vc.violations[j].message = DefaultRules[i].message
        /\ \A j, k \in DOMAIN vc.violations :
              j < k =>
                  \E a, b \in DOMAIN DefaultRules :
                      /\ a < b
                      /\ vc.violations[j].rule = DefaultRules[a].name
                      /\ vc.violations[k].rule = DefaultRules[b].name
        /\ vc.is_valid <=> (vc.violations = << >>)

\* A proposal that violates two of the three rules got two violations.
C32_Witness ==
    /\ vc.done
    /\ Len(vc.violations) = 2
    /\ ~vc.is_valid
    /\ Cardinality({n \in {"health_bounds", "progress_monotonic", "required_fields"} :
                       Fails(n)}) = 2

\* A resolver is registered for the type of the conflict and returns.
ResolverSucceeds(conflict) ==
    LET type == IF "type" \in DOMAIN conflict THEN conflict["type"] ELSE "unknown"
    IN  type \in DOMAIN rc.resolvers /\ rc.resolvers[type] = "ok"

\* C34: resolve_conflicts returns without raising; each input conflict whose
\* type has a resolver that returns contributes exactly one entry to resolved
\* and is not in unresolved, every other conflict is in unresolved exactly
\* once and contributes nothing to resolved, and the two lists together are
\* as long as the input.
C34_EveryConflictInOneBucket ==
    rc.done =>
        /\ ~rc.raised
        /\ Len(rc.resolved) + Len(rc.unresolved) = Len(rc.conflicts)
        /\ \A i \in DOMAIN rc.conflicts :
              LET made == Cardinality({j \in DOMAIN rc.resolved :
                              rc.resolved[j].resolution_of = rc.conflicts[i].id})
                  kept == Cardinality({j \in DOMAIN rc.unresolved :
                              rc.unresolved[j] = rc.conflicts[i]})
              IN  IF ResolverSucceeds(rc.conflicts[i])
                  THEN made = 1 /\ kept = 0
                  ELSE made = 0 /\ kept = 1

\* Five conflicts, one with a resolver that returns, one with a resolver
\* that raises and three of types without resolver, gave one resolved and
\* four unresolved.
C34_Witness ==
    /\ rc.done
    /\ Len(rc.conflicts) = 5
    /\ Len(rc.resolved) = 1
    /\ Len(rc.unresolved) = 4
    /\ \E i \in DOMAIN rc.conflicts :
          /\ "type" \in DOMAIN rc.conflicts[i]
          /\ rc.conflicts[i]["type"] \in DOMAIN rc.resolvers
          /\ rc.resolvers[rc.conflicts[i]["type"]] = "raise"

\* A call on the breaker was made in this step.
BreakerCalled == breaker'.calls = breaker.calls + 1

\* The seconds since the last failure.
SinceLastFailure == breaker.now - breaker.last_failure_time.at

\* What the breaker does after threshold failures and on a call in state
\* OPEN, with recovered telling whether the timeout counts as elapsed.
BreakerContract(recovered) ==
    /\ breaker'.failures_in_a_row >= breaker'.failure_threshold
           => breaker'.state = "OPEN"
    /\ BreakerCalled /\ breaker.state = "OPEN" /\ ~recovered
           => /\ breaker'.outcome = "rejected"
              /\ ~breaker'.ran
              /\ breaker'.state = "OPEN"
    /\ BreakerCalled /\ breaker.state = "OPEN" /\ recovered
           => /\ breaker'.ran
              /\ breaker'.trial
              /\ breaker'.outcome = "returned"
                     => breaker'.state = "CLOSED" /\ breaker'.failure_count = 0
              /\ breaker'.outcome = "raised" => breaker'.state = "OPEN"

\* C40: after failure_threshold failures in a row the breaker is OPEN; a call
\* in state OPEN made before recovery_timeout seconds have passed since the
\* last failure is rejected without invoking the function; one made when
\* recovery_timeout seconds or more have passed invokes it as a HALF_OPEN
\* trial, which closes the breaker with failure_count 0 when the function
\* returns and leaves it OPEN when the function raises.
C40_TrialOnceTimeoutElapsed ==
    [][BreakerContract(SinceLastFailure >= breaker.recovery_timeout)]_vars

\* C40, amended: the same with the trial made only when more than
\* recovery_timeout seconds have passed since the last failure; a call made
\* exactly recovery_timeout seconds after it is still rejected.
C40_TrialAfterTimeoutExceeded ==
    [][BreakerContract(SinceLastFailure > breaker.recovery_timeout)]_vars

\* A trial that returned closed the breaker, after a call that was rejected
\* at an earlier time.
C40_Witness ==
    /\ breaker.trial
    /\ breaker.outcome = "returned"
    /\ breaker.state = "CLOSED"
    /\ breaker.failure_count = 0
    /\ breaker.calls > breaker.failure_threshold + 1

\* The story_progress of a committed version, 0 when it has none.
ProgressOf(version) == DictGet(version.context_data, "story_progress", 0)

Validated ==
    \/ vc'.done /\ vc' # vc
    \/ vd'.done /\ vd' # vd
    \/ rd'.op = "validate_consistency" /\ rd' # rd

\* C33: a call of validate_changes, validate_story_consistency or
\* validate_consistency leaves the document, the version counter, the
\* version list, the change log, the hub's queue and its agent records as
\* they were, and no subscriber is notified.
C33_ValidationsReadOnly ==
    [][Validated => UNCHANGED <<context_data, current_version, versions,
                                change_log, message_queue, agent_status, done,
                                invoked>>]_vars

\* validate_changes found a change invalid on a store that has a committed
\* version and a subscriber, beside a hub with a queued message.
C33_Witness ==
    /\ vc.done
    /\ ~vc.is_valid
    /\ vc.current = context_data
    /\ versions # << >>
    /\ subscribers # << >>
    /\ message_queue # << >>

\* Thread t is inside update_context, at a callback that calls send_message,
\* and another thread holds the hub's lock.
WaitsForHub(t) ==
    /\ hthreads[t].pc = "notify"
    /\ hthreads[t].todo > 0
    /\ ~CanAcquireHub(t)

\* Thread t is inside send_message, at a handler that calls update_context,
\* and another thread holds the store's lock.
WaitsForStore(t) ==
    /\ hthreads[t].pc = "process"
    /\ hthreads[t].todo > 0
    /\ ~CanAcquire(t)

\* C37: the store's lock and the hub's lock are never each held by a thread
\* that waits for the other one.
C37_NoLockCycle ==
    \A t \in Threads, u \in Threads :
        ~(/\ lockOwner = t
          /\ WaitsForHub(t)
          /\ hubLock.owner = u
          /\ WaitsForStore(u))

\* The messages send_message returned True for.
AcceptedIds ==
    {i \in 1 .. hubCalls.send :
        /\ i \notin rejected
        /\ \A t \in Threads : hthreads[t].message.id # i}

\* C35: with threads calling register_agent, send_message and
\* get_messages_for_agent at once, every message send_message accepted is
\* in the queue; whenever no call is under way, each agent's messages_sent is
\* the number of accepted messages it sent and its messages_received the
\* number of point-to-point messages returned to it; and no point-to-point
\* message is returned by two calls of get_messages_for_agent.
C35_NothingLost ==
    /\ \A i \in AcceptedIds : \E k \in DOMAIN message_queue : message_queue[k].id = i
    /\ hubLock.owner = NoThread =>
          \A a \in DOMAIN agent_status :
             /\ agent_status[a].messages_sent =
                   Cardinality({i \in AcceptedIds :
                       \E k \in DOMAIN message_queue :
                          /\ message_queue[k].id = i
                          /\ message_queue[k].sender = a})
             /\ agent_status[a].messages_received =
                   Cardinality({e \in DOMAIN returned :
                                   /\ returned[e].to = a
                                   /\ returned[e].recipient # "broadcast"})
    /\ \A e \in DOMAIN returned : \A f \in DOMAIN returned :
          returned[e].recipient # "broadcast" /\ returned[e].id = returned[f].id
              => e = f

====
